---- MODULE Spec2Model ----
(***************************************************************************)
(* Verification model of the IMAP core of Inboxly:                         *)
(*   - ImapConnectionService (backend/src/imap/services/                   *)
(*     imap-connection.service.ts): the connection pool, connect with      *)
(*     retry, eviction, health sweep;                                      *)
(*   - ImapSyncService (backend/src/imap/services/imap-sync.service.ts,    *)
(*     the documented class at lines 252-802): the sync supervisor with    *)
(*     pause / resume / cancel.                                            *)
(* The node-imap session (new IMAP(), connect(), end(), the 'ready',       *)
(* 'error' and 'end' events, openBox / fetch / append) is the external     *)
(* collaborator: its answers are nondeterministic inputs of the actions.   *)
(***************************************************************************)
EXTENDS Integers, Sequences, FiniteSets, TLC

(***************************************************************************)
(* Bounds of the model.                                                    *)
(***************************************************************************)
\* Number of connection ids (uuidv4 values) createConnection can hand out.
MaxIds == 2
\* Number of connectWithRetry calls that are pending at the same time.
MaxRuns == 1
\* Largest value of the wall clock (new Date()).
MaxClock == 1
\* The same three bounds in the specification of connectWithRetry (SpecRetry),
\* which follows the retries of the entries of a pool that is not full.
RetryIds == 1
RetryRuns == 1
RetryClock == 1
\* The bounds of the specification of the health sweep (SpecHealth): two
\* entries, so that a sweep has a remaining entry after a failed reconnect.
HealthIds == 2
HealthRuns == 2
HealthClock == 0
\* The bounds of the specification of the pool keys (SpecKeys).
KeyIds == 2
KeyRuns == 1
\* Number of sweeps of checkConnectionHealth that wait at the same time.
MaxSweeps == 2
\* The bounds of the specification of the idle sweep (SpecSweep), the number
\* of idle sweeps that wait at the same time, and the milliseconds one step
\* of the clock stands for there.
SweepIds == 2
SweepRuns == 1
SweepClock == 2
MaxCleanups == 2
IdleTickMs == 300000
\* Idle time after which the sweep closes an entry (imap-connection.service.ts:30).
CONNECTION_TIMEOUT == 300000
\* ImapPoolService: the Imap objects createConnection makes in a behaviour, and
\* the createConnection calls that are pending at the same time.
MaxPooled == 3
MaxPoolCalls == 2
\* Pool capacity.  The program's value is 20 (imap-connection.service.ts:28);
\* the model keeps the comparison of the code and scales the number down.
MAX_CONNECTIONS == 1
\* Top-level folders of the source mailbox, messages of a folder, and
\* startSync calls in the specification of the synchronisation (SpecSync).
MaxFolders == 2
MaxMessages == 3
MaxStarts == 2
\* Folders under one parent in the hierarchies that createMissingFolders is
\* run on (SpecReconcile); the hierarchies are two levels deep.
MaxSiblings == 2
\* Characters of the folder names sanitizeFolderName is applied to (SpecSanitize).
MaxNameLen == 2
EvictIds == 3
EvictRuns == 2
EvictClock == 1
MaxFolderCalls == 3
MaxFolderRuns == 1
\* Number of MX records dnsResolveMx answers with.
MaxMx == 2

(***************************************************************************)
(* Program constants.                                                      *)
(***************************************************************************)
\* imap-connection.service.ts:32
MAX_RECONNECT_ATTEMPTS == 5
\* imap-connection.service.ts:34, milliseconds
RECONNECT_DELAY == 2000
\* imap-connection.service.ts:218, connectWithRetry(connectionId, 3)
CREATE_RETRIES == 3
\* imap-connection.service.ts:377, connectWithRetry(connectionId, 3)
GET_RETRIES == 3

Undef == "undef"
NoId == 0
Ids == 1..MaxIds
Users == {"alice", "bob"}
Errs == {"e1", "e2"}
Fields == {"user", "password", "host", "port"}

FullConfig(u) ==
    [user |-> u, password |-> "pw", host |-> "imap.example", port |-> "993"]
ValidConfigs == {FullConfig(u) : u \in Users}
InvalidConfigs == {[FullConfig("alice") EXCEPT ![f] = Undef] : f \in Fields}
Configs == ValidConfigs \cup InvalidConfigs

\* A guard that forgets the port.
IsValidConfigNoPort(config) == \A f \in Fields \ {"port"} : config[f] # Undef

\* createConnection's guard: !config.user || !config.password || ...
IsValidConfig(config) == \A f \in Fields : config[f] # Undef

VARIABLES
    connections,              \* Map<string, IMAP>: its keys in insertion order
    connectionStatus,         \* Map<string, ImapConnectionStatus>, in insertion order
    connectionPriorityQueue,  \* string[]
    imap,                     \* the IMAP objects and the listeners registered on them
    runs,                     \* the connectWithRetry calls, in the order they started
    settled,                  \* the connectWithRetry calls the last step settled
    health,                   \* the checkConnectionHealth sweep
    cleanup,                  \* the cleanupInactiveConnections sweeps that wait for a close
    nextId,                   \* the next uuidv4 value
    now,                      \* Date.now()
    lastCall,                 \* the call or event of the last step, and what it returned at once
    limits                    \* the bounds of the behaviour: [ids, runs, clock, errs, throws]

VARIABLES
    syncTasks,   \* Map<string, { paused, canceled }> of ImapSyncService
    loops,       \* the syncProcess calls that have not ended, in the order they started
    emitted,     \* the events the last step passed to eventEmitter.emit, in order
    dest,        \* how often each (folder, message) was appended to the destination
    mailbox,     \* the source mailbox: the number of messages of each top-level folder
    starts,      \* the number of startSync calls so far
    ended,       \* the syncProcess calls the last step ended, as they ended
    ctl          \* the control call of the last step

syncVars == <<syncTasks, loops, emitted, dest, mailbox, starts, ended, ctl>>

VARIABLES
    rec,         \* one createMissingFolders call: its arguments, its addBox calls, its result
    xfer,        \* one transfer of a message: the fetched message and the append it makes
    san          \* one folder name and what sanitizeFolderName makes of it

\* One call of a service whose result depends on its arguments and on what its
\* collaborators answer.
VARIABLES
    mail         \* one processEmail call: the message, the step it is at, its result

\* FolderSyncService.
VARIABLES
    syncInProgress,  \* Map<string, boolean>
    pausedSyncs,     \* Map<string, boolean>
    folderRuns,      \* the syncFolders calls that have not ended, in the order they started
    folderCtl        \* the last public call and the one before it

folderVars == <<syncInProgress, pausedSyncs, folderRuns, folderCtl>>

\* Calls of services that are followed on their own.
VARIABLES
    tlsCall      \* one checkTlsSupport call: its sockets, its timer, its promise

\* ImapPoolService (part_006).
VARIABLES
    connectionPool,  \* Map<string, PooledConnection>: [imap, inUse] per connection id
    pooled,          \* the Imap objects createConnection made, in the order it made them
    poolCalls,       \* the createConnection calls that have not settled
    poolRet          \* what the calls of getConnection returned in the last step

imapPoolVars == <<connectionPool, pooled, poolCalls, poolRet>>

auxVars == <<tlsCall, imapPoolVars>>

callVars == <<mail, folderVars, auxVars>>

pureVars == <<rec, xfer, san, callVars>>

poolVars == <<connections, connectionStatus, connectionPriorityQueue, imap, runs,
              settled, health, cleanup, nextId, now, lastCall, limits>>

(***************************************************************************)
(* JavaScript Map and array helpers.                                       *)
(***************************************************************************)
InSeq(s, x) == \E i \in 1..Len(s) : s[i] = x
Remove(s, x) == SelectSeq(s, LAMBDA y : y # x)
MapHas(m, k) == \E i \in 1..Len(m) : m[i].k = k
MapIdx(m, k) == CHOOSE i \in 1..Len(m) : m[i].k = k
MapGet(m, k) == m[MapIdx(m, k)].v
MapSet(m, k, v) ==
    IF MapHas(m, k) THEN [m EXCEPT ![MapIdx(m, k)].v = v]
    ELSE Append(m, [k |-> k, v |-> v])
MapDelete(m, k) == SelectSeq(m, LAMBDA e : e.k # k)
MapKeys(m) == {m[i].k : i \in 1..Len(m)}
Range(s) == {s[i] : i \in 1..Len(s)}

\* The object { id, host, port, user, state, lastActivity [, error] } the
\* listeners of createConnection store.
StatusRec(id, im, state, err, t) ==
    [id |-> id, host |-> im.host, port |-> im.port, user |-> im.user,
     state |-> state, lastActivity |-> t, error |-> err]
\* { ...undefined }: the spread of a status that is no longer in the map.
EmptyStatus ==
    [id |-> NoId, host |-> Undef, port |-> Undef, user |-> Undef,
     state |-> Undef, lastActivity |-> 0, error |-> Undef]
StatusOrEmpty(cs, id) == IF MapHas(cs, id) THEN MapGet(cs, id) ELSE EmptyStatus

NoSession ==
    [constructed |-> FALSE, host |-> Undef, port |-> Undef, user |-> Undef,
     state |-> "disconnected", pending |-> FALSE, endRequested |-> FALSE,
     onReady |-> FALSE, onError |-> FALSE, onEnd |-> FALSE, closeListener |-> FALSE]
\* new IMAP(imapConfig) followed by the three connection.once(...) of createConnection.
NewSession(config) ==
    [constructed |-> TRUE, host |-> config.host, port |-> config.port,
     user |-> config.user, state |-> "disconnected", pending |-> FALSE,
     endRequested |-> FALSE, onReady |-> TRUE, onError |-> TRUE, onEnd |-> TRUE,
     closeListener |-> FALSE]

NewRun(id, maxRetries, caller) ==
    [connectionId |-> id, maxRetries |-> maxRetries, retries |-> 0, connects |-> 0,
     pc |-> "start", caller |-> caller, error |-> Undef, result |-> "none"]

NoCall ==
    [op |-> "none", config |-> FullConfig("alice"), id |-> NoId, outcome |-> "none",
     error |-> Undef]
Call(op, config, id, outcome) ==
    [op |-> op, config |-> config, id |-> id, outcome |-> outcome, error |-> Undef]
\* A session event, or the timer of a retry, with the error it carries.
Event(op, id, err) ==
    [op |-> op, config |-> NoCall.config, id |-> id, outcome |-> "none", error |-> err]
IsSettled(run) == run.pc \in {"resolved", "rejected"}

\* The pool state the handlers thread through their statements.
Pool ==
    [conns |-> connections, cs |-> connectionStatus, q |-> connectionPriorityQueue,
     im |-> imap, rs |-> runs]

(***************************************************************************)
(* connectWithRetry (imap-connection.service.ts:232-331).                  *)
(***************************************************************************)
\* A getConnection that returns the handle without refreshing lastActivity.
ContinuationNoTouch(p, r, t) ==
    LET run == p.rs[r]
    IN  [p EXCEPT !.rs[r].result =
            IF run.pc = "resolved" THEN "ok"
            ELSE IF run.caller = "get" THEN "ReconnectFailed"
            ELSE IF run.caller = "create" THEN "ConnectFailed" ELSE "logged"]

\* What the caller of connectWithRetry does once its promise settles:
\*   getConnection (366-392): on success refresh lastActivity and return the
\*     handle, on failure throw 'Failed to reconnect';
\*   createConnection (218-224): return the id, or rethrow;
\*   checkConnectionHealth (351-356): log the failure and go on.
Continuation(p, r, t) ==
    LET run == p.rs[r]
        id == run.connectionId
    IN  IF run.caller = "get"
        THEN IF run.pc = "resolved"
             THEN [p EXCEPT !.cs = IF MapHas(@, id)
                                   THEN MapSet(@, id, [MapGet(@, id) EXCEPT !.lastActivity = t])
                                   ELSE @,
                            !.rs[r].result = "ok"]
             ELSE [p EXCEPT !.rs[r].result = "ReconnectFailed"]
        ELSE IF run.caller = "create"
        THEN [p EXCEPT !.rs[r].result = IF run.pc = "resolved" THEN "ok" ELSE "ConnectFailed"]
        ELSE [p EXCEPT !.rs[r].result = IF run.pc = "resolved" THEN "ok" ELSE "logged"]

RECURSIVE Pow(_, _)
Pow(b, n) == IF n = 0 THEN 1 ELSE b * Pow(b, n - 1)

\* A delay that doubles with every retry.
backoffDelayDoubling(retries) == RECONNECT_DELAY * Pow(2, retries - 1)

\* backoffDelay (289, 309): RECONNECT_DELAY * Math.pow(1.5, retries - 1), in
\* milliseconds.  1.5^n is 3^n / 2^n, which a double holds exactly for these n.
backoffDelay(retries) == (RECONNECT_DELAY * Pow(3, retries - 1)) \div Pow(2, retries - 1)

\* The .then of Promise.race (280-286): the ready event won.
RaceWon(p, r, t) ==
    LET id == p.rs[r].connectionId
    IN  Continuation([p EXCEPT !.q = IF InSeq(@, id) THEN @ ELSE Append(@, id),
                               !.rs[r].pc = "resolved"], r, t)

\* A catch handler that rejects without marking the entry.
RaceFailedNoMark(p, r, t, e) ==
    LET run == p.rs[r]
    IN  IF run.retries < run.maxRetries
        THEN [p EXCEPT !.rs[r].retries = @ + 1, !.rs[r].pc = "backoff"]
        ELSE Continuation([p EXCEPT !.rs[r].pc = "rejected", !.rs[r].error = e], r, t)

\* The .catch of Promise.race (287-306) and the catch block around
\* connection.connect() (307-326), which are the same code.
RaceFailed(p, r, t, e) ==
    LET run == p.rs[r]
        id == run.connectionId
    IN  IF run.retries < run.maxRetries
        THEN [p EXCEPT !.rs[r].retries = @ + 1, !.rs[r].pc = "backoff"]
        ELSE Continuation(
                 [p EXCEPT !.cs = MapSet(@, id, [StatusOrEmpty(@, id) EXCEPT
                                                    !.state = "error",
                                                    !.error = e,
                                                    !.lastActivity = t]),
                           !.rs[r].pc = "rejected",
                           !.rs[r].error = e], r, t)

\* attemptConnect (244-327): mark the entry 'connecting', call connect() and
\* register the ready and error listeners of the race.  throws: connect()
\* throws synchronously with error e.
AttemptConnect(p, r, t, throws, e) ==
    LET id == p.rs[r].connectionId
        p1 == [p EXCEPT !.cs = MapSet(@, id, [StatusOrEmpty(@, id) EXCEPT
                                                 !.state = "connecting",
                                                 !.lastActivity = t]),
                        !.rs[r].connects = @ + 1]
    IN  IF throws
        THEN RaceFailed(p1, r, t, e)
        ELSE [p1 EXCEPT !.im[id].pending = TRUE,
                        !.im[id].state = "disconnected",
                        !.rs[r].pc = "waiting"]

\* connectWithRetry(connectionId, maxRetries) up to its first await.  The
\* callers have checked that connectionId is in the connection map.
ConnectWithRetry(p, id, maxRetries, caller, t, throws, e) ==
    AttemptConnect([p EXCEPT !.rs = Append(@, NewRun(id, maxRetries, caller))],
                   Len(p.rs) + 1, t, throws, e)

\* The runs whose race is waiting for an event of session id.
WaitingRuns(rs, id) ==
    {r \in 1..Len(rs) : rs[r].connectionId = id /\ rs[r].pc = "waiting"}

RECURSIVE ReadyRuns(_, _, _, _)
ReadyRuns(p, id, r, t) ==
    IF r > Len(p.rs) THEN p
    ELSE ReadyRuns(IF r \in WaitingRuns(p.rs, id) THEN RaceWon(p, r, t) ELSE p,
                   id, r + 1, t)

RECURSIVE ErrorRuns(_, _, _, _, _)
ErrorRuns(p, id, r, t, e) ==
    IF r > Len(p.rs) THEN p
    ELSE ErrorRuns(IF r \in WaitingRuns(p.rs, id) THEN RaceFailed(p, r, t, e) ELSE p,
                   id, r + 1, t, e)

(***************************************************************************)
(* closeConnection and closeOldestConnection (398-451).                    *)
(***************************************************************************)
\* closeConnection(id) up to the promise it returns: an unknown id returns
\* at once; otherwise an 'end' listener is registered and end() is called.
\* The entry is deleted only when the session emits 'end' (SessionEnd).
CloseConnectionStart(p, id) ==
    IF InSeq(p.conns, id)
    THEN [p EXCEPT !.im[id].closeListener = TRUE, !.im[id].endRequested = TRUE]
    ELSE p

\* The forEach of closeOldestConnection (424-429).
RECURSIVE OldestScan(_, _, _, _)
OldestScan(cs, i, oldestId, oldestTime) ==
    IF i > Len(cs) THEN oldestId
    ELSE IF cs[i].v.lastActivity < oldestTime
         THEN OldestScan(cs, i + 1, cs[i].k, cs[i].v.lastActivity)
         ELSE OldestScan(cs, i + 1, oldestId, oldestTime)

CloseOldestConnection(p, t) ==
    LET oldestId == OldestScan(p.cs, 1, NoId, t)
    IN  IF oldestId # NoId
        THEN [CloseConnectionStart(p, oldestId) EXCEPT !.q = Remove(@, oldestId)]
        ELSE IF Len(p.conns) > 0
             THEN CloseConnectionStart(p, p.conns[1])
             ELSE p

\* The assignments every pool action ends with.  A settled connectWithRetry
\* call is kept for one step in `settled` and then forgotten.
CommitPool(p) ==
    /\ connections' = p.conns
    /\ connectionStatus' = p.cs
    /\ connectionPriorityQueue' = p.q
    /\ imap' = p.im
    /\ runs' = SelectSeq(p.rs, LAMBDA run : ~IsSettled(run))
    /\ settled' = {p.rs[r] : r \in {i \in 1..Len(p.rs) : IsSettled(p.rs[i])}}
    /\ limits' = limits
    /\ UNCHANGED <<syncVars, pureVars>>

\* The same for the steps that leave the idle sweeps as they are.
Commit(p) == CommitPool(p) /\ UNCHANGED cleanup

(***************************************************************************)
(* The operations of ImapConnectionService.                                *)
(***************************************************************************)
\* createConnection(config) (116-225) up to `await this.connectWithRetry`.
\* op is the name of the public call that runs it.
DoCreateConnection(op, config) ==
    IF ~IsValidConfig(config)
    THEN /\ lastCall' = Call(op, config, NoId, "InvalidConfig")
         /\ Commit(Pool)
         /\ UNCHANGED <<health, nextId, now>>
    ELSE /\ nextId <= limits.ids
         /\ Len(runs) < limits.runs
         /\ \E throws \in limits.throws, e \in limits.errs :
              LET id == nextId
                  p0 == Pool
                  p1 == IF Len(p0.conns) >= MAX_CONNECTIONS
                        THEN CloseOldestConnection(p0, now)
                        ELSE p0
                  p2 == [p1 EXCEPT !.im[id] = NewSession(config),
                                   !.conns = Append(@, id)]
                  p3 == [p2 EXCEPT !.cs = MapSet(@, id,
                                     StatusRec(id, p2.im[id], "connecting", Undef, now))]
              IN  Commit(ConnectWithRetry(p3, id, CREATE_RETRIES, "create", now, throws, e))
         /\ nextId' = nextId + 1
         /\ lastCall' = Call(op, config, nextId, "created")
         /\ UNCHANGED <<health, now>>

CreateConnection(config) == DoCreateConnection("createConnection", config)

\* A test that reuses connected entries only.
StatusMatchesConnectedOnly(status, config) ==
    /\ status.user = config.user
    /\ status.host = config.host
    /\ status.port = config.port
    /\ status.state = "connected"

\* The test of the loop of getAvailableConnection (461-466).
StatusMatches(status, config) ==
    /\ status.user = config.user
    /\ status.host = config.host
    /\ status.port = config.port
    /\ status.state \in {"connected", "connecting"}

\* getAvailableConnection(config) (458-486).
GetAvailableConnection(config) ==
    LET hits == {i \in 1..Len(connectionStatus) :
                    StatusMatches(connectionStatus[i].v, config)}
    IN  IF hits # {}
        THEN LET i == CHOOSE j \in hits : \A k \in hits : j <= k
                 id == connectionStatus[i].k
             IN  /\ Commit([Pool EXCEPT !.cs[i].v.lastActivity = now,
                                         !.q = Append(Remove(@, id), id)])
                 /\ lastCall' = Call("getAvailableConnection", config, id, "reused")
                 /\ UNCHANGED <<health, nextId, now>>
        ELSE DoCreateConnection("getAvailableConnection", config)

\* getConnection(connectionId) (366-392) up to its await, or to its return
\* when the session is alive.
GetConnection(id) ==
    IF ~InSeq(connections, id)
    THEN /\ lastCall' = Call("getConnection", NoCall.config, id, "NotFound")
         /\ Commit(Pool)
         /\ UNCHANGED <<health, nextId, now>>
    ELSE IF imap[id].state = "disconnected"
    THEN /\ Len(runs) < limits.runs
         /\ \E throws \in limits.throws, e \in limits.errs :
              Commit(ConnectWithRetry(Pool, id, GET_RETRIES, "get", now, throws, e))
         /\ lastCall' = Call("getConnection", NoCall.config, id, "reconnecting")
         /\ UNCHANGED <<health, nextId, now>>
    ELSE /\ Commit([Pool EXCEPT !.cs =
                 IF MapHas(@, id)
                 THEN MapSet(@, id, [MapGet(@, id) EXCEPT !.lastActivity = now])
                 ELSE @])
         /\ lastCall' = Call("getConnection", NoCall.config, id, "ok")
         /\ UNCHANGED <<health, nextId, now>>

\* closeConnection(connectionId) (398-413) up to the promise it returns.
CloseConnection(id) ==
    /\ Commit(CloseConnectionStart(Pool, id))
    /\ lastCall' = Call("closeConnection", NoCall.config, id,
                        IF InSeq(connections, id) THEN "closing" ELSE "noop")
    /\ UNCHANGED <<health, nextId, now>>

\* setTimeout(attemptConnect, backoffDelay) fires (294, 314).
RetryTimer(r) ==
    /\ r \in 1..Len(runs)
    /\ runs[r].pc = "backoff"
    /\ \E throws \in limits.throws, e \in limits.errs :
         /\ Commit(AttemptConnect(Pool, r, now, throws, e))
         /\ lastCall' = Event("retry", runs[r].connectionId, IF throws THEN e ELSE Undef)
    /\ UNCHANGED <<health, nextId, now>>

(***************************************************************************)
(* The events of a session, and the listeners they run.                    *)
(***************************************************************************)
\* 'ready': the once('ready') listener of createConnection (159-172), then
\* the readyHandler of every race that waits on the session.
SessionReady(id) ==
    /\ imap[id].constructed
    /\ imap[id].pending
    /\ LET p0 == Pool
           p1 == [p0 EXCEPT !.cs = IF imap[id].onReady
                                   THEN MapSet(@, id, StatusRec(id, imap[id], "connected", Undef, now))
                                   ELSE @,
                            !.im[id].onReady = FALSE,
                            !.im[id].pending = FALSE,
                            !.im[id].state = "connected"]
       IN  Commit(ReadyRuns(p1, id, 1, now))
    /\ lastCall' = Event("ready", id, Undef)
    /\ UNCHANGED <<health, nextId, now>>

\* 'error': the once('error') listener of createConnection (174-189), then
\* the errorHandler of every race that waits on the session.
SessionError(id, e) ==
    /\ e \in limits.errs
    /\ imap[id].constructed
    /\ imap[id].pending \/ imap[id].state = "connected"
    /\ LET p0 == Pool
           p1 == [p0 EXCEPT !.cs = IF imap[id].onError
                                   THEN MapSet(@, id, StatusRec(id, imap[id], "error", e, now))
                                   ELSE @,
                            !.im[id].onError = FALSE,
                            !.im[id].pending = FALSE,
                            !.im[id].state = "disconnected"]
       IN  Commit(ErrorRuns(p1, id, 1, now, e))
    /\ lastCall' = Event("error", id, e)
    /\ UNCHANGED <<health, nextId, now>>

\* 'end': the once('end') listener of createConnection (191-202), then the
\* listener closeConnection registered (405-409), which deletes the entry.
SessionEnd(id) ==
    /\ imap[id].constructed
    /\ imap[id].endRequested \/ imap[id].state = "connected"
    /\ LET p0 == Pool
           p1 == [p0 EXCEPT !.cs = IF imap[id].onEnd
                                   THEN MapSet(@, id, StatusRec(id, imap[id], "disconnected", Undef, now))
                                   ELSE @,
                            !.im[id].onEnd = FALSE,
                            !.im[id].pending = FALSE,
                            !.im[id].endRequested = FALSE,
                            !.im[id].state = "disconnected"]
           p2 == IF imap[id].closeListener
                 THEN [p1 EXCEPT !.conns = Remove(@, id),
                                 !.cs = MapDelete(@, id),
                                 !.im[id].closeListener = FALSE]
                 ELSE p1
       IN  Commit(p2)
    /\ lastCall' = IF imap[id].closeListener
                   THEN Call("closeConnection", NoCall.config, id, "closed")
                   ELSE NoCall
    /\ UNCHANGED <<health, nextId, now>>

(***************************************************************************)
(* checkConnectionHealth (336-359), the 30 s sweep.                        *)
(***************************************************************************)
\* The sweeps that wait for a connectWithRetry call: the entries each one has
\* passed and the entry it reconnects.  No sweep is under way.
HealthIdle == <<>>

\* The entry is neither skipped (339-346) nor alive (349).
NeedsReconnect(entry) ==
    /\ entry.v.state \notin {"error", "connecting"}
    /\ InSeq(connections, entry.k)
    /\ imap[entry.k].state = "disconnected"

\* The sweeps other than sweep k.
OtherSweeps(k) == [j \in 1..(Len(health) - 1) |-> IF j < k THEN health[j] ELSE health[j + 1]]

\* The for loop of one sweep from the entries not yet visited up to its next
\* await, or to its end; others are the sweeps that wait meanwhile.
HealthSweep(others, visited) ==
    LET todo == {i \in 1..Len(connectionStatus) :
                    /\ connectionStatus[i].k \notin visited
                    /\ NeedsReconnect(connectionStatus[i])}
    IN  IF todo = {}
        THEN /\ health' = others
             /\ Commit(Pool)
        ELSE LET i == CHOOSE j \in todo : \A k \in todo : j <= k
                 id == connectionStatus[i].k
             IN  /\ Len(runs) < limits.runs
                 /\ \E throws \in limits.throws, e \in limits.errs :
                      Commit(ConnectWithRetry(Pool, id, MAX_RECONNECT_ATTEMPTS,
                                              "health", now, throws, e))
                 /\ health' = Append(others,
                                     [visited |-> visited \cup
                                                  {connectionStatus[j].k : j \in 1..i},
                                      awaits |-> id])

\* The interval timer fires (setInterval, 47): a sweep starts, whether or not
\* an earlier one still waits.
CheckConnectionHealth ==
    /\ Len(health) < MaxSweeps
    /\ HealthSweep(health, {})
    /\ lastCall' = NoCall
    /\ UNCHANGED <<nextId, now>>

\* The connectWithRetry call sweep k awaits has settled.
Resumable(k) ==
    /\ k \in 1..Len(health)
    /\ \A r \in 1..Len(runs) :
          ~(runs[r].caller = "health" /\ runs[r].connectionId = health[k].awaits)

\* A sweep resumes in the microtasks of the event that settled its call,
\* before any other event or timer is handled.
SweepResumes == \E k \in 1..MaxSweeps : Resumable(k)

\* The loop of sweep k goes on after its await (351-356).
HealthResume(k) ==
    /\ Resumable(k)
    /\ HealthSweep(OtherSweeps(k), health[k].visited)
    /\ lastCall' = NoCall
    /\ UNCHANGED <<nextId, now>>

\* Time passes.
Tick ==
    /\ now < limits.clock
    /\ now' = now + 1
    /\ lastCall' = NoCall
    /\ Commit(Pool)
    /\ UNCHANGED <<health, nextId>>

(***************************************************************************)
(* cleanupInactiveConnections (504-520), the 60 s sweep.                   *)
(***************************************************************************)
\* The sweeps that wait for a closeConnection call: the time each one took at
\* its start, the ids it has not visited yet and the id whose close it awaits.
\* No sweep is under way.
CleanupIdle == <<>>

\* inactiveTime > this.CONNECTION_TIMEOUT (513-516), for the status of id and
\* the time `at` the sweep read when it started.
TimedOut(at, id) ==
    /\ MapHas(connectionStatus, id)
    /\ (at - MapGet(connectionStatus, id).lastActivity) * IdleTickMs > CONNECTION_TIMEOUT

\* The for loop from the ids not yet visited on: the ids from the first one
\* the loop awaits the close of.  An id without a status, one that is not
\* timed out, and one that closeConnection does not know (it returns at
\* once) are passed.
RECURSIVE CleanupSkip(_, _)
CleanupSkip(at, ids) ==
    IF ids = <<>> THEN <<>>
    ELSE IF TimedOut(at, Head(ids)) /\ InSeq(connections, Head(ids)) THEN ids
    ELSE CleanupSkip(at, Tail(ids))

OtherCleanups(k) ==
    [j \in 1..(Len(cleanup) - 1) |-> IF j < k THEN cleanup[j] ELSE cleanup[j + 1]]

\* One sweep up to its next await, or to its end; others are the sweeps that
\* wait meanwhile.
CleanupSweep(others, at, ids) ==
    LET rest == CleanupSkip(at, ids)
    IN  IF rest = <<>>
        THEN /\ cleanup' = others
             /\ CommitPool(Pool)
        ELSE /\ cleanup' = Append(others, [at |-> at, todo |-> Tail(rest),
                                           awaits |-> Head(rest)])
             /\ CommitPool(CloseConnectionStart(Pool, Head(rest)))

\* The interval timer fires (setInterval, 44): a sweep starts, whether or not
\* an earlier one still waits.
CleanupInactiveConnections ==
    /\ Len(cleanup) < MaxCleanups
    /\ CleanupSweep(cleanup, now, [i \in 1..Len(connectionStatus) |-> connectionStatus[i].k])
    /\ lastCall' = NoCall
    /\ UNCHANGED <<health, nextId, now>>

\* The closeConnection call sweep k awaits has resolved: the 'end' listener
\* of the call has deleted the entry.
CleanupResumable(k) ==
    /\ k \in 1..Len(cleanup)
    /\ ~InSeq(connections, cleanup[k].awaits)

\* A sweep resumes in the microtasks of the 'end' that resolved its call.
CleanupResumes == \E k \in 1..MaxCleanups : CleanupResumable(k)

\* The loop of sweep k goes on after its await (517).
CleanupResume(k) ==
    /\ CleanupResumable(k)
    /\ CleanupSweep(OtherCleanups(k), cleanup[k].at, cleanup[k].todo)
    /\ lastCall' = NoCall
    /\ UNCHANGED <<health, nextId, now>>

\* The ids a caller passes: the ids createConnection can have returned (an
\* id it has not returned yet, or one that was closed, is an unknown id).
CallIds == 1..limits.ids
(***************************************************************************)
(* ImapSyncService (imap-sync.service.ts, the class that starts at line    *)
(* 252).  A syncProcess call runs from one await of an IMAP operation to   *)
(* the next in one step: awaiting a promise that is already resolved only  *)
(* yields to microtasks, and the control calls arrive as macrotasks.  The  *)
(* IMAP operations (listFolders, addBox, openBox, fetch, append) are the   *)
(* collaborator: each one ends with success or with an error.              *)
(***************************************************************************)
TaskIds == {"src-dst"}
NoTask == [known |-> FALSE, paused |-> FALSE, canceled |-> FALSE]
Task(paused, canceled) == [known |-> TRUE, paused |-> paused, canceled |-> canceled]

\* The mailboxes a run can meet: up to MaxFolders top-level folders of up to
\* MaxMessages messages each.
RECURSIVE SeqsUpTo(_, _)
SeqsUpTo(S, n) ==
    IF n = 0 THEN {<<>>}
    ELSE LET shorter == SeqsUpTo(S, n - 1)
         IN  shorter \cup {Append(q, x) : q \in shorter, x \in S}
Mailboxes == SeqsUpTo(0..MaxMessages, MaxFolders)
Slots == {<<f, m>> : f \in 1..MaxFolders, m \in 1..MaxMessages}

PercentAlwaysFull(done, total) == 100

\* Math.round((done / total) * 100)
Percent(done, total) == (200 * done + total) \div (2 * total)

SyncEvent(type, taskId, folder, progress) ==
    [type |-> type, taskId |-> taskId, folder |-> folder, progress |-> progress]
NoCtl == [op |-> "none", taskId |-> "none"]
Ctl(op, taskId) == [op |-> op, taskId |-> taskId]

\* One syncProcess call: where it waits (pc), the folder of the for..of loop
\* (f, from 1), the messages of that folder (n) and how many of them are done
\* (i), the local foldersProcessed, and the events the call has emitted (log).
NewLoop(taskId) ==
    [taskId |-> taskId, pc |-> "listSource", f |-> 1, i |-> 0, n |-> 0,
     foldersProcessed |-> 0, log |-> <<>>]

\* What a step of a loop works on: the loop, the events it emits, the
\* destination mailbox.
Emit(y, type, folder, progress) ==
    [y EXCEPT !.ev = Append(@, SyncEvent(type, y.lp.taskId, folder, progress)),
              !.lp.log = Append(@, SyncEvent(type, y.lp.taskId, folder, progress))]
At(y, pc) == [y EXCEPT !.lp.pc = pc]

\* No call of the functions that are followed on their own.
NoInput == [pc |-> "none"]
NoFolderCtl == [service |-> "none", n |-> 0, op |-> "none", key |-> "none",
                active |-> FALSE, prev |-> "none", prevActive |-> FALSE]
FolderIdle ==
    /\ syncInProgress = <<>>
    /\ pausedSyncs = <<>>
    /\ folderRuns = <<>>
    /\ folderCtl = NoFolderCtl
ImapPoolIdle ==
    /\ connectionPool = <<>>
    /\ pooled = <<>>
    /\ poolCalls = <<>>
    /\ poolRet = {}
AuxIdle == tlsCall = NoInput /\ ImapPoolIdle
CallIdle == mail = NoInput /\ FolderIdle /\ AuxIdle
PureIdle == rec = NoInput /\ xfer = NoInput /\ san = NoInput /\ CallIdle

SyncIdle ==
    /\ syncTasks = [t \in TaskIds |-> NoTask]
    /\ loops = <<>>
    /\ emitted = <<>>
    /\ dest = [s \in Slots |-> 0]
    /\ mailbox = <<>>
    /\ starts = 0
    /\ ended = <<>>
    /\ ctl = NoCtl


InitPool ==
    /\ connections = <<>>
    /\ connectionStatus = <<>>
    /\ connectionPriorityQueue = <<>>
    /\ imap = [i \in Ids |-> NoSession]
    /\ runs = <<>>
    /\ settled = {}
    /\ health = HealthIdle
    /\ cleanup = CleanupIdle
    /\ nextId = 1
    /\ now = 0
    /\ lastCall = NoCall
    /\ SyncIdle
    /\ PureIdle
    /\ limits = [ids |-> MaxIds, runs |-> MaxRuns, clock |-> MaxClock,
                 errs |-> {"e1"}, throws |-> {FALSE}]

NextPool ==
    \/ \E config \in Configs : CreateConnection(config)
    \/ \E config \in Configs : GetAvailableConnection(config)
    \/ \E id \in CallIds : CloseConnection(id)
    \/ \E r \in 1..MaxRuns : RetryTimer(r)
    \/ \E id \in Ids : SessionReady(id)
    \/ \E id \in Ids, e \in Errs : SessionError(id, e)
    \/ \E id \in Ids : SessionEnd(id)
    \/ Tick

\* The retries of the entries of a pool that is not full, with the health sweep.
InitRetry ==
    /\ connections = <<>>
    /\ connectionStatus = <<>>
    /\ connectionPriorityQueue = <<>>
    /\ imap = [i \in Ids |-> NoSession]
    /\ runs = <<>>
    /\ settled = {}
    /\ health = HealthIdle
    /\ cleanup = CleanupIdle
    /\ nextId = 1
    /\ now = 0
    /\ lastCall = NoCall
    /\ SyncIdle
    /\ PureIdle
    /\ limits = [ids |-> RetryIds, runs |-> RetryRuns, clock |-> RetryClock,
                 errs |-> Errs, throws |-> BOOLEAN]

NextRetry ==
    \/ ~SweepResumes /\ \E config \in ValidConfigs : CreateConnection(config)
    \/ ~SweepResumes /\ \E id \in CallIds : GetConnection(id)
    \/ ~SweepResumes /\ \E r \in 1..RetryRuns : RetryTimer(r)
    \/ ~SweepResumes /\ \E id \in Ids : SessionReady(id)
    \/ ~SweepResumes /\ \E id \in Ids, e \in Errs : SessionError(id, e)
    \/ ~SweepResumes /\ \E id \in Ids : SessionEnd(id)
    \/ ~SweepResumes /\ \E id \in CallIds : CloseConnection(id)
    \/ ~SweepResumes /\ CheckConnectionHealth
    \/ ~SweepResumes /\ Tick
    \/ \E k \in 1..MaxSweeps : HealthResume(k)

\* The health sweep over the entries of a pool that is not full: sessions
\* connect, fail and drop, and no caller touches the entries.
InitHealth ==
    /\ connections = <<>>
    /\ connectionStatus = <<>>
    /\ connectionPriorityQueue = <<>>
    /\ imap = [i \in Ids |-> NoSession]
    /\ runs = <<>>
    /\ settled = {}
    /\ health = HealthIdle
    /\ cleanup = CleanupIdle
    /\ nextId = 1
    /\ now = 0
    /\ lastCall = NoCall
    /\ SyncIdle
    /\ PureIdle
    /\ limits = [ids |-> HealthIds, runs |-> HealthRuns, clock |-> HealthClock,
                 errs |-> {"e1"}, throws |-> {FALSE}]

\* connect() ends with 'ready' or with 'error' (connTimeout and authTimeout,
\* 143-144, bound the wait).
SessionAnswers(id) ==
    /\ imap[id].pending
    /\ \/ SessionReady(id)
       \/ \E e \in Errs : SessionError(id, e)

NextHealth ==
    \/ ~SweepResumes /\ \E config \in ValidConfigs : CreateConnection(config)
    \/ ~SweepResumes /\ \E r \in 1..HealthRuns : RetryTimer(r)
    \/ ~SweepResumes /\ \E id \in Ids : SessionReady(id)
    \/ ~SweepResumes /\ \E id \in Ids, e \in Errs : SessionError(id, e)
    \/ ~SweepResumes /\ \E id \in Ids : SessionEnd(id)
    \/ ~SweepResumes /\ CheckConnectionHealth
    \/ \E k \in 1..MaxSweeps : HealthResume(k)

\* The config of the callers that all ask for the same key.
KeyConfig == FullConfig("alice")

\* The idle sweep over a pool whose sessions connect, fail and drop while
\* time passes.
InitSweep ==
    /\ connections = <<>>
    /\ connectionStatus = <<>>
    /\ connectionPriorityQueue = <<>>
    /\ imap = [i \in Ids |-> NoSession]
    /\ runs = <<>>
    /\ settled = {}
    /\ health = HealthIdle
    /\ cleanup = CleanupIdle
    /\ nextId = 1
    /\ now = 0
    /\ lastCall = NoCall
    /\ SyncIdle
    /\ PureIdle
    /\ limits = [ids |-> SweepIds, runs |-> SweepRuns, clock |-> SweepClock,
                 errs |-> {"e1"}, throws |-> {FALSE}]

\* connection.end() on a session that is connected: the server answers the
\* LOGOUT and the session emits 'end'.
LiveSessionEnds(id) ==
    /\ imap[id].state = "connected"
    /\ imap[id].endRequested
    /\ SessionEnd(id)

\* A sweep of either kind resumes in the microtasks of the event it waited for.
Resumes == SweepResumes \/ CleanupResumes

NextSweep ==
    \/ ~Resumes /\ CreateConnection(KeyConfig)
    \/ ~Resumes /\ \E r \in 1..SweepRuns : RetryTimer(r)
    \/ ~Resumes /\ \E id \in Ids : SessionReady(id)
    \/ ~Resumes /\ \E id \in Ids, e \in Errs : SessionError(id, e)
    \/ ~Resumes /\ \E id \in Ids : SessionEnd(id)
    \/ ~Resumes /\ Tick
    \/ ~Resumes /\ CheckConnectionHealth
    \/ ~Resumes /\ CleanupInactiveConnections
    \/ \E k \in 1..MaxSweeps : HealthResume(k)
    \/ ~SweepResumes /\ \E k \in 1..MaxCleanups : CleanupResume(k)

\* The callers of getAvailableConnection and getConnection, with sessions that
\* drop and the health sweep that reconnects them.  Every caller asks for the
\* same key.
InitKeys ==
    /\ connections = <<>>
    /\ connectionStatus = <<>>
    /\ connectionPriorityQueue = <<>>
    /\ imap = [i \in Ids |-> NoSession]
    /\ runs = <<>>
    /\ settled = {}
    /\ health = HealthIdle
    /\ cleanup = CleanupIdle
    /\ nextId = 1
    /\ now = 0
    /\ lastCall = NoCall
    /\ SyncIdle
    /\ PureIdle
    /\ limits = [ids |-> KeyIds, runs |-> KeyRuns, clock |-> 0,
                 errs |-> {"e1"}, throws |-> {FALSE}]

NextKeys ==
    \/ ~SweepResumes /\ GetAvailableConnection(KeyConfig)
    \/ ~SweepResumes /\ \E id \in CallIds : GetConnection(id)
    \/ ~SweepResumes /\ \E r \in 1..KeyRuns : RetryTimer(r)
    \/ ~SweepResumes /\ \E id \in Ids : SessionReady(id)
    \/ ~SweepResumes /\ \E id \in Ids, e \in Errs : SessionError(id, e)
    \/ ~SweepResumes /\ \E id \in Ids : SessionEnd(id)
    \/ ~SweepResumes /\ CheckConnectionHealth
    \/ \E k \in 1..MaxSweeps : HealthResume(k)

\* getConnectionStatus(id) and getAllConnectionStatuses().
getConnectionStatus(id) == StatusOrEmpty(connectionStatus, id)
getAllConnectionStatuses == {connectionStatus[i].v : i \in 1..Len(connectionStatus)}

\* The callers of getAvailableConnection on a pool that evicts: no caller
\* closes a connection, so that an entry is closed by closeOldestConnection
\* only.
InitReuse ==
    /\ connections = <<>>
    /\ connectionStatus = <<>>
    /\ connectionPriorityQueue = <<>>
    /\ imap = [i \in Ids |-> NoSession]
    /\ runs = <<>>
    /\ settled = {}
    /\ health = HealthIdle
    /\ cleanup = CleanupIdle
    /\ nextId = 1
    /\ now = 0
    /\ lastCall = NoCall
    /\ SyncIdle
    /\ PureIdle
    /\ limits = [ids |-> MaxIds, runs |-> MaxIds, clock |-> MaxClock,
                 errs |-> {"e1"}, throws |-> {FALSE}]

NextReuse ==
    \/ \E config \in ValidConfigs : GetAvailableConnection(config)
    \/ \E r \in 1..MaxIds : RetryTimer(r)
    \/ \E id \in Ids : SessionReady(id)
    \/ \E id \in Ids : SessionError(id, "e1")
    \/ \E id \in Ids : SessionEnd(id)
    \/ Tick

(***************************************************************************)
(* closeAllConnections (491-499), called by onModuleDestroy.               *)
(***************************************************************************)
\* closeConnection(id) of an entry whose connection.end() throws: the 'end'
\* listener is registered, the session is not asked to end, and the promise
\* of the call rejects.
CloseConnectionFails(p, id) ==
    IF InSeq(p.conns, id) THEN [p EXCEPT !.im[id].closeListener = TRUE] ELSE p

\* A loop that awaits each closeConnection before it calls the next, as the
\* idle sweep does: it starts the close of the first id only.
RECURSIVE CloseEachAwaited(_, _, _)
CloseEachAwaited(p, ids, failing) ==
    IF ids = <<>> THEN p
    ELSE IF Head(ids) \in failing THEN CloseConnectionFails(p, Head(ids))
    ELSE CloseConnectionStart(p, Head(ids))

\* Array.from(this.connections.keys()).map(id => this.closeConnection(id)):
\* every call runs up to the promise it returns before the next one starts.
\* failing holds the ids whose connection.end() throws.
RECURSIVE CloseEach(_, _, _)
CloseEach(p, ids, failing) ==
    IF ids = <<>> THEN p
    ELSE CloseEach(IF Head(ids) \in failing
                   THEN CloseConnectionFails(p, Head(ids))
                   ELSE CloseConnectionStart(p, Head(ids)),
                   Tail(ids), failing)

\* closeAllConnections up to await Promise.all(closePromises); nothing
\* follows the await, and onModuleDestroy does not wait for it.
CloseAllConnections(failing) ==
    /\ Commit(CloseEach(Pool, connections, failing))
    /\ lastCall' = Call("closeAllConnections", NoCall.config, NoId,
                        IF failing \cap Range(connections) = {} THEN "closing"
                        ELSE "rejected")
    /\ UNCHANGED <<health, nextId, now>>

\* The pool at shutdown: connections are created, become ready and end, and
\* the module is destroyed.
InitShutdown ==
    /\ connections = <<>>
    /\ connectionStatus = <<>>
    /\ connectionPriorityQueue = <<>>
    /\ imap = [i \in Ids |-> NoSession]
    /\ runs = <<>>
    /\ settled = {}
    /\ health = HealthIdle
    /\ cleanup = CleanupIdle
    /\ nextId = 1
    /\ now = 0
    /\ lastCall = NoCall
    /\ SyncIdle
    /\ PureIdle
    /\ limits = [ids |-> MaxIds, runs |-> MaxIds, clock |-> 0,
                 errs |-> {"e1"}, throws |-> {FALSE}]

NextShutdown ==
    \/ \E config \in ValidConfigs : CreateConnection(config)
    \/ \E id \in Ids : SessionReady(id)
    \/ \E id \in Ids : SessionError(id, "e1")
    \/ \E id \in Ids : SessionEnd(id)
    \/ \E r \in 1..MaxIds : RetryTimer(r)
    \/ \E failing \in SUBSET Ids : CloseAllConnections(failing)

\* The evictions of a full pool: createConnection is called for one account
\* again and again, and no caller closes a connection, so that an entry is
\* closed by closeOldestConnection only.
EvictConfig == FullConfig("alice")

InitEvict ==
    /\ connections = <<>>
    /\ connectionStatus = <<>>
    /\ connectionPriorityQueue = <<>>
    /\ imap = [i \in 1..EvictIds |-> NoSession]
    /\ runs = <<>>
    /\ settled = {}
    /\ health = HealthIdle
    /\ cleanup = CleanupIdle
    /\ nextId = 1
    /\ now = 0
    /\ lastCall = NoCall
    /\ SyncIdle
    /\ PureIdle
    /\ limits = [ids |-> EvictIds, runs |-> EvictRuns, clock |-> EvictClock,
                 errs |-> {"e1"}, throws |-> {FALSE}]

NextEvict ==
    \/ CreateConnection(EvictConfig)
    \/ \E r \in 1..EvictRuns : RetryTimer(r)
    \/ \E id \in 1..EvictIds : SessionReady(id)
    \/ \E id \in 1..EvictIds : SessionError(id, "e1")
    \/ \E id \in 1..EvictIds : SessionEnd(id)
    \/ Tick

(***************************************************************************)
(* syncProcess and syncFolder, from one await to the next.                 *)
(***************************************************************************)
\* The ways a syncProcess call ends: after the last folder, with the error
\* of the set-up, at a cancel check.
Ended == {"completed", "failed", "stopped"}

\* An await of the set-up has thrown: the catch of syncProcess emits
\* 'sync:error' and throws again, the catch of startSync emits it once more.
SetupFailed(y) == At(Emit(Emit(y, "sync:error", 0, 0), "sync:error", 0, 0), "failed")

\* syncFolder up to its first await: 'sync:folder:start', then openBox on the source.
StartFolder(y) == At(Emit(y, "sync:folder:start", y.lp.f, 0), "openSource")

\* The top of the for..of loop of syncProcess: past the last folder
\* 'sync:completed' { foldersProcessed, totalFolders }; else the cancel check,
\* then waitIfPaused, whose first checkPaused runs at once.
EnterFolder(y, task, mb) ==
    IF y.lp.f > Len(mb)
    THEN At(Emit(y, "sync:completed", Len(mb), y.lp.foldersProcessed), "completed")
    ELSE IF ~task.known \/ task.canceled THEN At(y, "stopped")
    ELSE IF task.paused THEN At(y, "folderPoll")
    ELSE StartFolder(y)

\* syncFolder has returned: foldersProcessed++, 'sync:progress', next folder.
FolderDone(y, task, mb) ==
    LET done == y.lp.foldersProcessed + 1
        y1 == Emit([y EXCEPT !.lp.foldersProcessed = done],
                   "sync:progress", y.lp.f, Percent(done, Len(mb)))
    IN  EnterFolder([y1 EXCEPT !.lp.f = @ + 1, !.lp.i = 0, !.lp.n = 0], task, mb)

FolderFailedAborts(y, task, mb) ==
    SetupFailed(Emit(y, "sync:folder:error", y.lp.f, 0))

\* syncFolder has thrown: 'sync:folder:error', next folder.
FolderFailed(y, task, mb) ==
    LET y1 == Emit(y, "sync:folder:error", y.lp.f, 0)
    IN  EnterFolder([y1 EXCEPT !.lp.f = @ + 1, !.lp.i = 0, !.lp.n = 0], task, mb)

\* The top of the for loop of syncFolder: past the last message
\* 'sync:folder:complete'; else the cancel check, which returns from
\* syncFolder, then waitIfPaused, then appendMessage.
EnterMessage(y, task, mb) ==
    IF y.lp.i >= y.lp.n
    THEN FolderDone(Emit(y, "sync:folder:complete", y.lp.f, 0), task, mb)
    ELSE IF ~task.known \/ task.canceled THEN FolderDone(y, task, mb)
    ELSE IF task.paused THEN At(y, "msgPoll")
    ELSE At(y, "append")

\* checkPaused, run by the timer of waitIfPaused: it resolves when the task
\* is canceled or not paused, and sets the timer again otherwise.
CheckPaused(y, task, resolved) ==
    IF ~task.known \/ task.canceled THEN resolved
    ELSE IF task.paused THEN y
    ELSE resolved

\* The append has succeeded: the message is in the destination folder,
\* 'sync:folder:progress' with Math.round(((i + 1) / messages.length) * 100).
Appended(y, task, mb) ==
    LET done == y.lp.i + 1
        y1 == [y EXCEPT !.dst[<<y.lp.f, done>>] = @ + 1, !.lp.i = done]
    IN  EnterMessage(Emit(y1, "sync:folder:progress", y.lp.f, Percent(done, y.lp.n)),
                     task, mb)

StepOf(k) == [lp |-> loops[k], ev |-> <<>>, dst |-> dest]
DropAt(q, k) == [j \in 1..(Len(q) - 1) |-> IF j < k THEN q[j] ELSE q[j + 1]]

SyncCommit(k, y) ==
    /\ loops' = IF y.lp.pc \in Ended THEN DropAt(loops, k) ELSE [loops EXCEPT ![k] = y.lp]
    /\ emitted' = y.ev
    /\ dest' = y.dst
    /\ ended' = IF y.lp.pc \in Ended THEN <<y.lp>> ELSE <<>>
    /\ ctl' = NoCtl
    /\ UNCHANGED <<syncTasks, mailbox, starts, poolVars, pureVars>>

Waiting(k, pc) == k \in 1..Len(loops) /\ loops[k].pc = pc
TaskOf(k) == syncTasks[loops[k].taskId]

\* await listFolders(sourceConnectionId): the folders, or 'Source connection error'.
ListSourceDone(k, ok) ==
    /\ Waiting(k, "listSource")
    /\ SyncCommit(k, IF ok THEN At(StepOf(k), "listDest") ELSE SetupFailed(StepOf(k)))

\* await listFolders(destConnectionId)
ListDestDone(k, ok) ==
    /\ Waiting(k, "listDest")
    /\ SyncCommit(k, IF ok THEN At(StepOf(k), "createMissing") ELSE SetupFailed(StepOf(k)))

\* await createMissingFolders(...): then the folder loop begins.
CreateMissingDone(k, ok) ==
    /\ Waiting(k, "createMissing")
    /\ SyncCommit(k, IF ok THEN EnterFolder(StepOf(k), TaskOf(k), mailbox)
                     ELSE SetupFailed(StepOf(k)))

\* The timer of the waitIfPaused of syncProcess fires.
FolderPollTimer(k) ==
    /\ Waiting(k, "folderPoll")
    /\ SyncCommit(k, CheckPaused(StepOf(k), TaskOf(k), StartFolder(StepOf(k))))

\* openBox on the source has called back.
OpenSourceDone(k, ok) ==
    /\ Waiting(k, "openSource")
    /\ SyncCommit(k, IF ok THEN At(StepOf(k), "fetch")
                     ELSE FolderFailed(StepOf(k), TaskOf(k), mailbox))

\* fetchMessages(sourceConnection, '1:*') has settled.
FetchDone(k, ok) ==
    /\ Waiting(k, "fetch")
    /\ SyncCommit(k, IF ok
                     THEN At([StepOf(k) EXCEPT !.lp.n = mailbox[loops[k].f]], "openDest")
                     ELSE FolderFailed(StepOf(k), TaskOf(k), mailbox))

\* openBox on the destination has called back: the message loop begins.
OpenDestDone(k, ok) ==
    /\ Waiting(k, "openDest")
    /\ SyncCommit(k, IF ok THEN EnterMessage(StepOf(k), TaskOf(k), mailbox)
                     ELSE FolderFailed(StepOf(k), TaskOf(k), mailbox))

\* The timer of the waitIfPaused of syncFolder fires.
MsgPollTimer(k) ==
    /\ Waiting(k, "msgPoll")
    /\ SyncCommit(k, CheckPaused(StepOf(k), TaskOf(k), At(StepOf(k), "append")))

\* appendMessage has settled (it rejects on a message without source and on
\* the error of destConnection.append).
AppendDone(k, ok) ==
    /\ Waiting(k, "append")
    /\ SyncCommit(k, IF ok THEN Appended(StepOf(k), TaskOf(k), mailbox)
                     ELSE FolderFailed(StepOf(k), TaskOf(k), mailbox))

(***************************************************************************)
(* The public calls of ImapSyncService.                                    *)
(***************************************************************************)
ControlCommit(op, taskId, tasks, events) ==
    /\ syncTasks' = tasks
    /\ emitted' = events
    /\ ended' = <<>>
    /\ ctl' = Ctl(op, taskId)
    /\ UNCHANGED <<dest, mailbox, poolVars, pureVars>>

\* startSync: the task is set to { paused: false, canceled: false } and
\* syncProcess runs up to its first await.
StartSync(taskId) ==
    /\ starts < MaxStarts
    /\ starts' = starts + 1
    /\ loops' = Append(loops, NewLoop(taskId))
    /\ ControlCommit("start", taskId,
                     [syncTasks EXCEPT ![taskId] = Task(FALSE, FALSE)], <<>>)

PauseSync(taskId) ==
    /\ UNCHANGED <<loops, starts>>
    /\ IF syncTasks[taskId].known
       THEN ControlCommit("pause", taskId, [syncTasks EXCEPT ![taskId].paused = TRUE],
                          <<SyncEvent("sync:paused", taskId, 0, 0)>>)
       ELSE ControlCommit("pause", taskId, syncTasks, <<>>)

ResumeSync(taskId) ==
    /\ UNCHANGED <<loops, starts>>
    /\ IF syncTasks[taskId].known /\ syncTasks[taskId].paused
       THEN ControlCommit("resume", taskId, [syncTasks EXCEPT ![taskId].paused = FALSE],
                          <<SyncEvent("sync:resumed", taskId, 0, 0)>>)
       ELSE ControlCommit("resume", taskId, syncTasks, <<>>)

CancelSync(taskId) ==
    /\ UNCHANGED <<loops, starts>>
    /\ IF syncTasks[taskId].known
       THEN ControlCommit("cancel", taskId, [syncTasks EXCEPT ![taskId].canceled = TRUE],
                          <<SyncEvent("sync:canceled", taskId, 0, 0)>>)
       ELSE ControlCommit("cancel", taskId, syncTasks, <<>>)

\* getSyncStatus: a paused task counts as paused, a task that is neither
\* paused nor canceled counts as active; the flags of every task are listed.
getSyncStatus ==
    [activeSyncs |-> Cardinality({t \in TaskIds :
                        /\ syncTasks[t].known
                        /\ ~syncTasks[t].paused
                        /\ ~syncTasks[t].canceled}),
     pausedSyncs |-> Cardinality({t \in TaskIds :
                        syncTasks[t].known /\ syncTasks[t].paused}),
     tasks |-> {[taskId |-> t, paused |-> syncTasks[t].paused,
                 canceled |-> syncTasks[t].canceled] :
                    t \in {u \in TaskIds : syncTasks[u].known}}]

\* The pool is not part of this specification: the IMAP operations of the
\* two connections are the outcomes ok of the steps above.
InitSync ==
    /\ connections = <<>>
    /\ connectionStatus = <<>>
    /\ connectionPriorityQueue = <<>>
    /\ imap = [i \in Ids |-> NoSession]
    /\ runs = <<>>
    /\ settled = {}
    /\ health = HealthIdle
    /\ cleanup = CleanupIdle
    /\ nextId = 1
    /\ now = 0
    /\ lastCall = NoCall
    /\ limits = [ids |-> 0, runs |-> 0, clock |-> 0, errs |-> {}, throws |-> {}]
    /\ syncTasks = [t \in TaskIds |-> NoTask]
    /\ loops = <<>>
    /\ emitted = <<>>
    /\ dest = [s \in Slots |-> 0]
    /\ mailbox \in Mailboxes
    /\ starts = 0
    /\ ended = <<>>
    /\ ctl = NoCtl
    /\ PureIdle

NextSync ==
    \/ \E t \in TaskIds : StartSync(t)
    \/ \E t \in TaskIds : PauseSync(t)
    \/ \E t \in TaskIds : ResumeSync(t)
    \/ \E t \in TaskIds : CancelSync(t)
    \/ \E k \in 1..MaxStarts, ok \in BOOLEAN : ListSourceDone(k, ok)
    \/ \E k \in 1..MaxStarts, ok \in BOOLEAN : ListDestDone(k, ok)
    \/ \E k \in 1..MaxStarts, ok \in BOOLEAN : CreateMissingDone(k, ok)
    \/ \E k \in 1..MaxStarts : FolderPollTimer(k)
    \/ \E k \in 1..MaxStarts, ok \in BOOLEAN : OpenSourceDone(k, ok)
    \/ \E k \in 1..MaxStarts, ok \in BOOLEAN : FetchDone(k, ok)
    \/ \E k \in 1..MaxStarts, ok \in BOOLEAN : OpenDestDone(k, ok)
    \/ \E k \in 1..MaxStarts : MsgPollTimer(k)
    \/ \E k \in 1..MaxStarts, ok \in BOOLEAN : AppendDone(k, ok)

\* The scheduling of a syncProcess call: a timer that is set fires, and an
\* IMAP operation that was started calls back, with success or with an error.
LoopStep(k) ==
    \/ \E ok \in BOOLEAN : ListSourceDone(k, ok)
    \/ \E ok \in BOOLEAN : ListDestDone(k, ok)
    \/ \E ok \in BOOLEAN : CreateMissingDone(k, ok)
    \/ FolderPollTimer(k)
    \/ \E ok \in BOOLEAN : OpenSourceDone(k, ok)
    \/ \E ok \in BOOLEAN : FetchDone(k, ok)
    \/ \E ok \in BOOLEAN : OpenDestDone(k, ok)
    \/ MsgPollTimer(k)
    \/ \E ok \in BOOLEAN : AppendDone(k, ok)

InitSyncFair ==
    /\ InitSync
    /\ Len(mailbox) = 1

(***************************************************************************)
(* createMissingFolders, the three versions: ImapSyncService (line 468),   *)
(* its first version (line 125) and FolderSyncService.  A folder name and  *)
(* a path are sequences of characters.  The server's answer to getBoxes is *)
(* a list of boxes { name, children } in the order the server gives them.  *)
(***************************************************************************)
Delimiters == {"/", "."}
\* The names a server with this hierarchy delimiter can hold.
FolderNames(delim) ==
    IF delim = "/" THEN {<<"a">>, <<"b", "b">>} ELSE {<<"a">>, <<"b", "/", "c">>}
NoRepeat(q) == \A i, j \in 1..Len(q) : q[i] = q[j] => i = j
NameLists(delim) == {q \in SeqsUpTo(FolderNames(delim), MaxSiblings) : NoRepeat(q)}
\* One order of every set of names: the order of the destination's answer
\* is not looked at.
OrderedNameLists(delim) ==
    {q \in NameLists(delim) : \A i, j \in 1..Len(q) : i < j => Len(q[i]) < Len(q[j])}
Box(name, children) == [name |-> name, children |-> children]
BoxesOver(names, lists) ==
    UNION {{[i \in 1..Len(tops) |->
               Box(tops[i], [j \in 1..Len(c[tops[i]]) |-> Box(c[tops[i]][j], <<>>)])]
            : c \in [names -> lists]}
           : tops \in lists}
SourceBoxes(delim) == BoxesOver(FolderNames(delim), NameLists(delim))
DestBoxes(delim) == BoxesOver(FolderNames(delim), OrderedNameLists(delim))

\* ImapConnectionService.parseBoxes: the hierarchy, paths joined with the
\* delimiter of the box.
RECURSIVE ParseBoxes(_, _, _)
ParseBoxes(boxes, path, delim) ==
    [i \in 1..Len(boxes) |->
        LET folderPath == IF path = <<>> THEN boxes[i].name
                          ELSE path \o <<delim>> \o boxes[i].name
        IN  [path |-> folderPath,
             children |-> ParseBoxes(boxes[i].children, folderPath, delim)]]

\* FolderSyncService.parseFolderHierarchy: the flat list, paths joined with
\* the default delimiter '/' whatever the delimiter of the server is.
RECURSIVE ParseFolderHierarchy(_, _)
ParseFolderHierarchy(boxes, parentPath) ==
    IF boxes = <<>> THEN <<>>
    ELSE LET path == IF parentPath = <<>> THEN boxes[1].name
                     ELSE parentPath \o <<"/">> \o boxes[1].name
         IN  <<[path |-> path, children |-> <<>>]>>
             \o ParseFolderHierarchy(boxes[1].children, path)
             \o ParseFolderHierarchy(Tail(boxes), parentPath)

\* ImapSyncService.flattenFolders
RECURSIVE flattenFolders(_)
flattenFolders(folders) ==
    IF folders = <<>> THEN <<>>
    ELSE <<folders[1]>> \o flattenFolders(folders[1].children)
         \o flattenFolders(Tail(folders))

PathsOf(folders) == [i \in 1..Len(folders) |-> folders[i].path]
\* Array.from(new Set(paths)): the first occurrence of every path, in order.
RECURSIVE SetOrder(_)
SetOrder(q) ==
    IF q = <<>> THEN <<>>
    ELSE LET front == SetOrder(SubSeq(q, 1, Len(q) - 1))
         IN  IF InSeq(front, q[Len(q)]) THEN front ELSE Append(front, q[Len(q)])

\* a.split('/').length
SegmentCount(path) == 1 + Cardinality({i \in 1..Len(path) : path[i] = "/"})

InsertDescending(sorted, e) ==
    LET before == Cardinality({i \in 1..Len(sorted) : sorted[i].k >= e.k})
    IN  SubSeq(sorted, 1, before) \o <<e>> \o SubSeq(sorted, before + 1, Len(sorted))

\* Array.prototype.sort with the comparator (a, b) => key(a) - key(b): the
\* sort is stable (ECMAScript 2019), elements of equal key keep their order.
InsertByKey(sorted, e) ==
    LET before == Cardinality({i \in 1..Len(sorted) : sorted[i].k <= e.k})
    IN  SubSeq(sorted, 1, before) \o <<e>> \o SubSeq(sorted, before + 1, Len(sorted))
RECURSIVE SortByKey(_)
SortByKey(q) ==
    IF q = <<>> THEN <<>>
    ELSE InsertByKey(SortByKey(SubSeq(q, 1, Len(q) - 1)), q[Len(q)])
SortBySegments(paths) ==
    LET sorted == SortByKey([i \in 1..Len(paths) |-> [k |-> SegmentCount(paths[i]), v |-> paths[i]]])
    IN  [i \in 1..Len(sorted) |-> sorted[i].v]
SortByLength(paths) ==
    LET sorted == SortByKey([i \in 1..Len(paths) |-> [k |-> Len(paths[i]), v |-> paths[i]]])
    IN  [i \in 1..Len(sorted) |-> sorted[i].v]

Services == {"imapSync", "imapSyncFirst", "folderSync"}
\* The paths of the source and of the destination as the service sees them.
SourcePaths(service, boxes, delim) ==
    IF service = "folderSync" THEN PathsOf(ParseFolderHierarchy(boxes, <<>>))
    ELSE SetOrder(PathsOf(flattenFolders(ParseBoxes(boxes, <<>>, delim))))
DestPaths(service, boxes, delim) ==
    IF service = "folderSync" THEN Range(PathsOf(ParseFolderHierarchy(boxes, <<>>)))
    ELSE Range(PathsOf(flattenFolders(ParseBoxes(boxes, <<>>, delim))))

MissingFoldersUnfiltered(service, source, destination, delim) ==
    SourcePaths(service, source, delim)

\* The paths createMissingFolders calls addBox for, in the order of the calls.
MissingFolders(service, source, destination, delim) ==
    LET destPaths == DestPaths(service, destination, delim)
        sourcePaths == SourcePaths(service, source, delim)
        absent(q) == SelectSeq(q, LAMBDA path : path \notin destPaths)
    IN  CASE service = "imapSync" -> SortBySegments(absent(sourcePaths))
          [] service = "imapSyncFirst" -> absent(sourcePaths)
          [] service = "folderSync" -> absent(SortByLength(sourcePaths))

\* The server after a successful addBox(path): a child of the box whose
\* name the path extends by the server's delimiter, a top-level box else.
AddBox(boxes, path, delim) ==
    IF \E i \in 1..Len(boxes) : \E name \in FolderNames(delim) :
           path = boxes[i].name \o <<delim>> \o name
    THEN LET i == CHOOSE i \in 1..Len(boxes) : \E name \in FolderNames(delim) :
                      path = boxes[i].name \o <<delim>> \o name
             name == CHOOSE name \in FolderNames(delim) :
                      path = boxes[i].name \o <<delim>> \o name
         IN  [boxes EXCEPT ![i].children = Append(@, Box(name, <<>>))]
    ELSE Append(boxes, Box(path, <<>>))
RECURSIVE AddBoxes(_, _, _)
AddBoxes(boxes, paths, delim) ==
    IF paths = <<>> THEN boxes
    ELSE AddBoxes(AddBox(boxes, paths[1], delim), Tail(paths), delim)

ReconcileInput(service, delim, source, destination, round, first) ==
    [pc |-> "input", service |-> service, delim |-> delim, source |-> source,
     dest |-> destination, todo |-> <<>>, calls |-> <<>>, failed |-> {}, round |-> round,
     first |-> first]

PureCommit == UNCHANGED <<poolVars, syncVars, callVars>>

\* createMissingFolders up to its first await.
CreateMissingFolders ==
    /\ rec.pc = "input"
    /\ LET todo == MissingFolders(rec.service, rec.source, rec.dest, rec.delim)
       IN  rec' = [rec EXCEPT !.todo = todo,
                              !.calls = IF todo = <<>> THEN <<>> ELSE <<todo[1]>>,
                              !.pc = IF todo = <<>> THEN "resolved" ELSE "addBox"]
    /\ UNCHANGED <<xfer, san>>
    /\ PureCommit

\* The callback of addBox.  ImapSyncService rejects on an error;
\* FolderSyncService logs it and goes on.
AddBoxDone(ok) ==
    /\ rec.pc = "addBox"
    /\ LET path == rec.calls[Len(rec.calls)]
           more == Len(rec.calls) < Len(rec.todo)
           next == [rec EXCEPT !.calls = IF more THEN Append(@, rec.todo[Len(@) + 1]) ELSE @,
                               !.pc = IF more THEN "addBox" ELSE "resolved"]
       IN  rec' = IF ok THEN next
                  ELSE IF rec.service = "folderSync"
                  THEN [next EXCEPT !.failed = @ \cup {path}]
                  ELSE [rec EXCEPT !.failed = @ \cup {path}, !.pc = "rejected"]
    /\ UNCHANGED <<xfer, san>>
    /\ PureCommit

\* The same call again, on the destination as the first call has left it.
ReconcileAgain ==
    /\ rec.pc = "resolved" /\ rec.round = 1 /\ rec.failed = {}
    /\ rec' = ReconcileInput(rec.service, rec.delim, rec.source,
                             AddBoxes(rec.dest, rec.calls, rec.delim), 2, rec.calls)
    /\ UNCHANGED <<xfer, san>>
    /\ PureCommit

PoolIdle ==
    /\ connections = <<>>
    /\ connectionStatus = <<>>
    /\ connectionPriorityQueue = <<>>
    /\ imap = [i \in Ids |-> NoSession]
    /\ runs = <<>>
    /\ settled = {}
    /\ health = HealthIdle
    /\ cleanup = CleanupIdle
    /\ nextId = 1
    /\ now = 0
    /\ lastCall = NoCall
    /\ limits = [ids |-> 0, runs |-> 0, clock |-> 0, errs |-> {}, throws |-> {}]

InitReconcile ==
    /\ PoolIdle
    /\ SyncIdle
    /\ xfer = NoInput
    /\ san = NoInput
    /\ CallIdle
    /\ \E service \in Services, delim \in Delimiters :
         \E source \in SourceBoxes(delim), destination \in DestBoxes(delim) :
            rec = ReconcileInput(service, delim, source, destination, 1, <<>>)

NextReconcile ==
    \/ CreateMissingFolders
    \/ \E ok \in BOOLEAN : AddBoxDone(ok)
    \/ ReconcileAgain

(***************************************************************************)
(* The transfer of one message: what fetchMessages keeps of it and what    *)
(* the append to the destination carries, in ImapSyncService (fetch at     *)
(* line 593, appendMessage at line 770) and in FolderSyncService           *)
(* (copyMessageWithFlags, line 688).                                       *)
(***************************************************************************)
SystemFlags == {"\\Seen", "\\Answered", "\\Flagged", "\\Deleted", "\\Draft"}
SourceFlags == SystemFlags \cup {"\\Recent", "$Label1"}
\* The internal date of the server, and the Date header or its absence.
InternalDates == {"d1", "d2"}
HeaderDates == {"d1", "d2", Undef}
TransferServices == {"imapSync", "folderSync"}

\* The 'attributes' handler and the body handler of ImapSyncService.fetchMessages:
\* six booleans, date = parsed.date || new Date().
EmailMessage(attrs, headerDate, hasSource) ==
    [flags |-> [seen |-> "\\Seen" \in attrs.flags,
                answered |-> "\\Answered" \in attrs.flags,
                flagged |-> "\\Flagged" \in attrs.flags,
                deleted |-> "\\Deleted" \in attrs.flags,
                draft |-> "\\Draft" \in attrs.flags,
                recent |-> "\\Recent" \in attrs.flags],
     date |-> IF headerDate = Undef THEN "now" ELSE headerDate,
     source |-> hasSource]

\* ImapSyncService.appendMessage: the flags array it builds.
AppendFlags(flags) ==
    (IF flags.seen THEN <<"\\Seen">> ELSE <<>>)
    \o (IF flags.answered THEN <<"\\Answered">> ELSE <<>>)
    \o (IF flags.flagged THEN <<"\\Flagged">> ELSE <<>>)
    \o (IF flags.deleted THEN <<"\\Deleted">> ELSE <<>>)
    \o (IF flags.draft THEN <<"\\Draft">> ELSE <<>>)

NoAppend == [flags |-> {}, date |-> Undef]
TransferInput(service, attrs, headerDate, hasSource, exists) ==
    [pc |-> "input", service |-> service, attrs |-> attrs, headerDate |-> headerDate,
     hasSource |-> hasSource, exists |-> exists, append |-> NoAppend]

\* ImapSyncService: fetchMessages keeps the message, appendMessage rejects a
\* message without source and else appends with the five flags and the date.
ImapSyncTransfer ==
    /\ xfer.pc = "input" /\ xfer.service = "imapSync"
    /\ LET message == EmailMessage(xfer.attrs, xfer.headerDate, xfer.hasSource)
       IN  xfer' = IF ~message.source THEN [xfer EXCEPT !.pc = "rejected"]
                   ELSE [xfer EXCEPT !.pc = "appended",
                                     !.append = [flags |-> Range(AppendFlags(message.flags)),
                                                 date |-> message.date]]
    /\ UNCHANGED <<rec, san>>
    /\ PureCommit

\* FolderSyncService.copyMessageWithFlags: a message whose header block is
\* in the destination folder is skipped, else it is appended with
\* message.attributes.flags and message.attributes.date.
CopyMessageWithFlags ==
    /\ xfer.pc = "input" /\ xfer.service = "folderSync"
    /\ xfer' = IF xfer.exists THEN [xfer EXCEPT !.pc = "skipped"]
               ELSE [xfer EXCEPT !.pc = "appended",
                                 !.append = [flags |-> xfer.attrs.flags,
                                             date |-> xfer.attrs.date]]
    /\ UNCHANGED <<rec, san>>
    /\ PureCommit

InitTransfer ==
    /\ PoolIdle
    /\ SyncIdle
    /\ rec = NoInput
    /\ san = NoInput
    /\ CallIdle
    /\ \E service \in TransferServices, flags \in SUBSET SourceFlags,
          date \in InternalDates, headerDate \in HeaderDates,
          hasSource \in BOOLEAN, exists \in BOOLEAN :
         /\ service = "imapSync" => ~exists
         /\ service = "folderSync" => hasSource
         /\ xfer = TransferInput(service, [flags |-> flags, date |-> date],
                                 headerDate, hasSource, exists)

NextTransfer ==
    \/ ImapSyncTransfer
    \/ CopyMessageWithFlags

(***************************************************************************)
(* sanitizeFolderName: the chain of replace calls of                       *)
(* folder-sync.service.ts and the single regular expression of the other   *)
(* version of the file.  A name is a sequence of characters.               *)
(***************************************************************************)
NameChars == {"A", "/", "\\", "*", "?", "\"", "<", ">", "|", "-", "_", "'", "(", ")"}
ExampleName == <<"A", "/", "B", "*", "C">>
Names == SeqsUpTo(NameChars, MaxNameLen) \cup {ExampleName}

\* name.replace(/from/g, to)
ReplaceAll(name, from, to) ==
    [i \in 1..Len(name) |-> IF name[i] = from THEN to ELSE name[i]]

sanitizeFolderNameNoPipe(name) ==
    ReplaceAll(ReplaceAll(ReplaceAll(ReplaceAll(ReplaceAll(ReplaceAll(ReplaceAll(
        name, "/", "-"), "\\", "-"), "*", "_"), "?", "_"), "\"", "'"), "<", "("), ">", ")")

\* folder-sync.service.ts: eight replace calls in a chain.
sanitizeFolderName(name) ==
    ReplaceAll(ReplaceAll(ReplaceAll(ReplaceAll(ReplaceAll(ReplaceAll(ReplaceAll(ReplaceAll(
        name, "/", "-"), "\\", "-"), "*", "_"), "?", "_"), "\"", "'"), "<", "("), ">", ")"),
        "|", "_")

\* The other version: name.replace(/[\/\\*?"<>|]/g, (c) => switch (c) ...)
sanitizeFolderNameRegex(name) ==
    [i \in 1..Len(name) |->
        IF name[i] \in {"/", "\\", "*", "?", "\"", "<", ">", "|"}
        THEN CASE name[i] \in {"/", "\\"} -> "-"
               [] name[i] \in {"*", "?", "|"} -> "_"
               [] name[i] = "\"" -> "'"
               [] name[i] = "<" -> "("
               [] name[i] = ">" -> ")"
        ELSE name[i]]

SanitizeInput(name) ==
    [pc |-> "input", name |-> name, chained |-> <<>>, regex |-> <<>>,
     chainedTwice |-> <<>>, regexTwice |-> <<>>]

\* Both versions are applied to the name.
Sanitize ==
    /\ san.pc = "input"
    /\ san' = [san EXCEPT !.pc = "once", !.chained = sanitizeFolderName(san.name),
                          !.regex = sanitizeFolderNameRegex(san.name)]
    /\ UNCHANGED <<rec, xfer>>
    /\ PureCommit

\* Both versions are applied to their own result.
SanitizeAgain ==
    /\ san.pc = "once"
    /\ san' = [san EXCEPT !.pc = "twice", !.chainedTwice = sanitizeFolderName(san.chained),
                          !.regexTwice = sanitizeFolderNameRegex(san.regex)]
    /\ UNCHANGED <<rec, xfer>>
    /\ PureCommit

InitSanitize ==
    /\ PoolIdle
    /\ SyncIdle
    /\ rec = NoInput
    /\ xfer = NoInput
    /\ CallIdle
    /\ \E name \in Names : san = SanitizeInput(name)

NextSanitize ==
    \/ Sanitize
    \/ SanitizeAgain

(***************************************************************************)
(* EmailProcessorService.processEmail, in its two versions: the service    *)
(* file and the other copy of the class.  A string is the sequence of its  *)
(* characters (addresses) or of its words (header values); a number that   *)
(* may be undefined or NaN is a record.                                    *)
(***************************************************************************)
ProcessVersions == {"service", "copy"}

Undefined == [kind |-> "undefined"]
NaN == [kind |-> "NaN"]
Num(n) == [kind |-> "number", value |-> n]

\* a - b of two JavaScript numbers.
Subtract(a, b) ==
    IF a.kind = "number" /\ b.kind = "number" THEN Num(a.value - b.value) ELSE NaN

Addresses == {<<>>, <<"u">>, <<"u", "@">>, <<"u", "@", "X">>, <<"@", "u", "@", "x">>}

\* message.from: undefined, [] or one address.
Senders == {[defined |-> FALSE, list |-> <<>>], [defined |-> TRUE, list |-> <<>>]}
           \cup {[defined |-> TRUE, list |-> <<[address |-> a]>>] : a \in Addresses}

\* The values of the Received header: without ';', with nothing after it, with
\* text that is no date, and with the dates 1 and 2.
ReceivedValues ==
    {<<"from">>, <<"from", ";">>, <<"from", ";", "soon">>, <<"from", ";", "t1">>,
     <<"from", ";", "t2">>}

\* message.headers: undefined, or the headers as name and value pairs.
HeaderSets ==
    {[defined |-> FALSE, pairs |-> <<>>], [defined |-> TRUE, pairs |-> <<>>],
     [defined |-> TRUE, pairs |-> <<<<"X-Gm-Message-State", <<"s">>>>>>]}
    \cup {[defined |-> TRUE, pairs |-> <<<<"received", r>>>>] : r \in ReceivedValues}
    \cup {[defined |-> TRUE, pairs |-> <<<<"received", <<"from", ";", "soon">>>>,
                                        <<"X-Gm-Message-State", <<"s">>>>>>]}

\* message.date: undefined or a time.
SentDates == {Undefined, Num(0), Num(1)}

\* headers[name]: '' stands for a header that is not there, the callers test
\* the value with !value.
HeaderValue(headers, name) ==
    IF \E i \in 1..Len(headers.pairs) : headers.pairs[i][1] = name
    THEN headers.pairs[CHOOSE i \in 1..Len(headers.pairs) : headers.pairs[i][1] = name][2]
    ELSE <<>>

ToLowerCase(text) == [i \in 1..Len(text) |-> IF text[i] = "X" THEN "x" ELSE text[i]]

\* email.match(/@([^@]+)$/): the text after the last '@', when there is some.
extractDomain(email) ==
    IF \E i \in 1..Len(email) : email[i] = "@"
    THEN LET last == CHOOSE i \in 1..Len(email) :
                         /\ email[i] = "@"
                         /\ \A j \in (i + 1)..Len(email) : email[j] # "@"
         IN  ToLowerCase(SubSeq(email, last + 1, Len(email)))
    ELSE <<>>

\* receivedHeader.match(/;\s*(.+)$/): the text after the first ';'.
ReceivedDatePart(received) ==
    IF \E i \in 1..Len(received) : received[i] = ";"
    THEN LET first == CHOOSE i \in 1..Len(received) :
                          /\ received[i] = ";"
                          /\ \A j \in 1..(i - 1) : received[j] # ";"
         IN  SubSeq(received, first + 1, Len(received))
    ELSE <<>>

\* new Date(text).getTime(): NaN for a text that is no date.
DateTime(text) ==
    CASE text = <<"t1">> -> Num(1)
      [] text = <<"t2">> -> Num(2)
      [] OTHER -> NaN

\* calculateTimeDelta: a TypeError (headers or date undefined in the service
\* file) is caught and gives undefined; the copy reads both with ?. and takes 0
\* for a missing date.
calculateTimeDelta(version, message) ==
    IF ~message.headers.defined THEN Undefined
    ELSE LET received == HeaderValue(message.headers, "received")
             part == ReceivedDatePart(received)
         IN  IF received = <<>> THEN Undefined
             ELSE IF part = <<>> THEN Undefined
             ELSE IF message.date = Undefined
                  THEN IF version = "service" THEN Undefined
                       ELSE Subtract(DateTime(part), Num(0))
                  ELSE Subtract(DateTime(part), message.date)

\* message.from[0]?.address || '' (the copy: message.from?.[0]?.address ?? '').
SenderOf(message) ==
    IF message.from.list = <<>> THEN <<>> ELSE message.from.list[1].address

\* The header scan of detectESP over espPatterns, then the SPF lookup: txt is
\* what dns.resolveTxt answers.  Object.entries(undefined) throws in the service
\* file and the catch of detectESP gives undefined.
detectESP(version, message, txt) ==
    IF ~message.headers.defined /\ version = "service" THEN Undef
    ELSE IF HeaderValue(message.headers, "X-Gm-Message-State") # <<>> THEN "Gmail"
    ELSE IF txt = "sendgrid" THEN "SendGrid"
    ELSE Undef

\* checkOpenRelay: mx is what dns.resolveMx answers; connect, error and timeout
\* all resolve false.
checkOpenRelay(mx) == IF mx = "found" THEN "false" ELSE Undef

TlsProbes == {"authorized", "unauthorized", "starttls", "refused", "timeout"}

\* checkTlsSupport: probe is what the connection to the primary MX does.
checkTlsSupport(mx, probe) ==
    IF mx # "found" THEN [tlsSupport |-> Undef, validCertificate |-> Undef]
    ELSE CASE probe = "authorized" -> [tlsSupport |-> "true", validCertificate |-> "true"]
           [] probe = "unauthorized" -> [tlsSupport |-> "true", validCertificate |-> "false"]
           [] probe = "starttls" -> [tlsSupport |-> "true", validCertificate |-> Undef]
           [] probe = "refused" -> [tlsSupport |-> "false", validCertificate |-> Undef]
           [] probe = "timeout" -> [tlsSupport |-> Undef, validCertificate |-> Undef]

\* The record processEmail builds after its last step.
Analytics(m) ==
    [messageId |-> m.message.messageId, sender |-> m.sender,
     senderDomain |-> m.senderDomain, esp |-> m.esp, timeDelta |-> m.timeDelta,
     openRelay |-> m.openRelay, tlsSupport |-> m.tlsSupport,
     validCertificate |-> m.validCertificate, userId |-> m.userId,
     connectionId |-> m.connectionId]

\* The record the catch of processEmail returns.
PartialAnalytics(m) ==
    [sender |-> SenderOf(m.message), senderDomain |-> extractDomain(SenderOf(m.message))]

\* result.name of a returned record: undefined when the record has no such field.
Field(result, name) == IF name \in DOMAIN result THEN result[name] ELSE Undef
TimeDeltaOf(result) ==
    IF "timeDelta" \in DOMAIN result THEN result.timeDelta ELSE Undefined

EmailInput(version, message, userId) ==
    [pc |-> "call", version |-> version, message |-> message, userId |-> userId,
     connectionId |-> "c1", sender |-> <<>>, senderDomain |-> <<>>,
     timeDelta |-> Undefined, esp |-> Undef, openRelay |-> Undef, tlsSupport |-> Undef,
     validCertificate |-> Undef, failed |-> "none", result |-> [none |-> TRUE]]

CallCommit == UNCHANGED <<poolVars, syncVars, rec, xfer, san, folderVars, auxVars>>

\* processEmail up to the first await.  In the service file message.from[0]
\* throws when from is undefined, and the catch evaluates it again.
ProcessEmail ==
    /\ mail.pc = "call"
    /\ IF mail.version = "service" /\ ~mail.message.from.defined
       THEN mail' = [mail EXCEPT !.pc = "rejected", !.failed = "from"]
       ELSE mail' = [mail EXCEPT
                !.pc = "detectESP",
                !.sender = SenderOf(mail.message),
                !.senderDomain = extractDomain(SenderOf(mail.message)),
                !.timeDelta = calculateTimeDelta(mail.version, mail.message)]
    /\ CallCommit

DetectESPDone(txt) ==
    /\ mail.pc = "detectESP"
    /\ mail' = [mail EXCEPT !.pc = "checkOpenRelay",
                            !.esp = detectESP(mail.version, mail.message, txt)]
    /\ CallCommit

CheckOpenRelayDone(mx) ==
    /\ mail.pc = "checkOpenRelay"
    /\ mail' = [mail EXCEPT !.pc = "checkTlsSupport", !.openRelay = checkOpenRelay(mx)]
    /\ CallCommit

\* Without a userId nothing is indexed or saved and the record is returned.
CheckTlsSupportDone(mx, probe) ==
    /\ mail.pc = "checkTlsSupport"
    /\ LET tls == checkTlsSupport(mx, probe)
           next == [mail EXCEPT !.tlsSupport = tls.tlsSupport,
                                !.validCertificate = tls.validCertificate]
       IN  IF mail.userId = Undef
           THEN mail' = [next EXCEPT !.pc = "returned", !.result = Analytics(next)]
           ELSE mail' = [next EXCEPT !.pc = "indexEmailForSearch"]
    /\ CallCommit

\* indexEmailForSearch catches its own errors.
IndexEmailDone ==
    /\ mail.pc = "indexEmailForSearch"
    /\ mail' = [mail EXCEPT !.pc = "create"]
    /\ CallCommit

\* emailAnalyticsModel.create: when it rejects, the catch of processEmail runs.
CreateAnalyticsDone(ok) ==
    /\ mail.pc = "create"
    /\ IF ok
       THEN mail' = [mail EXCEPT !.pc = "returned", !.result = Analytics(mail)]
       ELSE mail' = [mail EXCEPT !.pc = "returned", !.failed = "create",
                                 !.result = PartialAnalytics(mail)]
    /\ CallCommit

InitProcess ==
    /\ PoolIdle
    /\ SyncIdle
    /\ rec = NoInput
    /\ xfer = NoInput
    /\ san = NoInput
    /\ FolderIdle
    /\ AuxIdle
    /\ \E version \in ProcessVersions, from \in Senders, headers \in HeaderSets,
          date \in SentDates, userId \in {Undef, "user1"} :
          mail = EmailInput(version,
                            [messageId |-> "<m1>", from |-> from, headers |-> headers,
                             date |-> date],
                            userId)

NextProcess ==
    \/ ProcessEmail
    \/ \E txt \in {"error", "none", "sendgrid"} : DetectESPDone(txt)
    \/ \E mx \in {"error", "empty", "found"} : CheckOpenRelayDone(mx)
    \/ \E mx \in {"error", "empty", "found"}, probe \in TlsProbes :
          CheckTlsSupportDone(mx, probe)
    \/ IndexEmailDone
    \/ \E ok \in BOOLEAN : CreateAnalyticsDone(ok)

(***************************************************************************)
(* FolderSyncService: syncFolders, pauseSync, resumeSync, getSyncStatus.   *)
(* The IMAP operations of a run are the outcomes ok of its awaits.         *)
(***************************************************************************)
\* map.get(key) used as a condition, and map.get(key) || false.
Truthy(m, k) == MapHas(m, k) /\ MapGet(m, k)

FolderSync_getSyncStatus(key) ==
    [inProgress |-> Truthy(syncInProgress, key), paused |-> Truthy(pausedSyncs, key)]

FolderCall(op, key) ==
    [service |-> folderCtl.service, n |-> folderCtl.n + 1, op |-> op, key |-> key,
     active |-> FolderSync_getSyncStatus(key).inProgress
                /\ ~FolderSync_getSyncStatus(key).paused,
     prev |-> folderCtl.op, prevActive |-> folderCtl.active]

FolderCommit == UNCHANGED <<poolVars, syncVars, rec, xfer, san, mail, auxVars>>

\* A syncFolders that looks at the paused flag only before it starts a run.
SyncFoldersStartUnguarded(key, paused) ==
    IF Truthy(paused, key)
    THEN UNCHANGED <<syncInProgress, folderRuns>>
    ELSE /\ syncInProgress' = MapSet(syncInProgress, key, TRUE)
         /\ folderRuns' = Append(folderRuns, [key |-> key, pc |-> "getSource", f |-> 0, n |-> 0])

\* syncFolders up to its first await: it returns at once when the key is in
\* progress or paused (as seen in the map paused).
SyncFoldersStart(key, paused) ==
    IF Truthy(syncInProgress, key) \/ Truthy(paused, key)
    THEN UNCHANGED <<syncInProgress, folderRuns>>
    ELSE /\ syncInProgress' = MapSet(syncInProgress, key, TRUE)
         /\ folderRuns' = Append(folderRuns, [key |-> key, pc |-> "getSource", f |-> 0, n |-> 0])

SyncFolders(key) ==
    /\ folderCtl.n < MaxFolderCalls
    /\ SyncFoldersStart(key, pausedSyncs)
    /\ folderCtl' = FolderCall("syncFolders", key)
    /\ UNCHANGED pausedSyncs
    /\ FolderCommit

FolderSync_pauseSync(key) ==
    /\ folderCtl.n < MaxFolderCalls
    /\ pausedSyncs' = MapSet(pausedSyncs, key, TRUE)
    /\ folderCtl' = FolderCall("pause", key)
    /\ UNCHANGED <<syncInProgress, folderRuns>>
    /\ FolderCommit

\* A resumeSync that leaves the paused flag of the key as it is.
ResumedFlagsUnchanged(key) == pausedSyncs

\* The map pausedSyncs after resumeSync.
ResumedFlags(key) == MapSet(pausedSyncs, key, FALSE)

\* resumeSync: the flag is cleared, and syncFolders is called again when the
\* key is not in progress.
FolderSync_resumeSync(key) ==
    /\ folderCtl.n < MaxFolderCalls
    /\ pausedSyncs' = ResumedFlags(key)
    /\ SyncFoldersStart(key, pausedSyncs')
    /\ folderCtl' = FolderCall("resume", key)
    /\ FolderCommit

\* The end of a run: finally { syncInProgress.set(syncKey, false) }.
FolderRunEnds(k) ==
    /\ folderRuns' = DropAt(folderRuns, k)
    /\ syncInProgress' = MapSet(syncInProgress, folderRuns[k].key, FALSE)

FolderRunAt(k, pc) == k \in 1..Len(folderRuns) /\ folderRuns[k].pc = pc

\* An await of the set-up has settled: getConnection of the source and of the
\* destination, then getFolders of the source (n folders) and of the destination.
FolderSetupDone(k, ok, n) ==
    /\ \E pc \in {"getSource", "getDest", "sourceFolders", "destFolders"} :
          /\ FolderRunAt(k, pc)
          /\ IF ok
             THEN /\ folderRuns' =
                       [folderRuns EXCEPT
                          ![k].pc = CASE pc = "getSource" -> "getDest"
                                      [] pc = "getDest" -> "sourceFolders"
                                      [] pc = "sourceFolders" -> "destFolders"
                                      [] pc = "destFolders" -> "createMissing",
                          ![k].n = IF pc = "sourceFolders" THEN n ELSE @]
                  /\ UNCHANGED syncInProgress
             ELSE FolderRunEnds(k)
    /\ UNCHANGED <<pausedSyncs, folderCtl>>
    /\ FolderCommit

\* The head of the folder loop: the run ends after the last folder and when
\* the key is paused; otherwise syncFolderMessages of the next folder begins.
FolderLoopHead(k) ==
    IF folderRuns[k].f = folderRuns[k].n \/ Truthy(pausedSyncs, folderRuns[k].key)
    THEN FolderRunEnds(k)
    ELSE /\ folderRuns' = [folderRuns EXCEPT ![k].pc = "messages", ![k].f = @ + 1]
         /\ UNCHANGED syncInProgress

\* await createMissingFolders(...) or await syncFolderMessages(...) has settled.
FolderStepDone(k, ok) ==
    /\ FolderRunAt(k, "createMissing") \/ FolderRunAt(k, "messages")
    /\ IF ok THEN FolderLoopHead(k) ELSE FolderRunEnds(k)
    /\ UNCHANGED <<pausedSyncs, folderCtl>>
    /\ FolderCommit

\* The calls and the steps of one of the two services, ImapSyncService or
\* FolderSyncService, on one pair of connections.
ControlServices == {"imapSync", "folderSync"}

InitControl ==
    /\ PoolIdle
    /\ syncTasks = [t \in TaskIds |-> NoTask]
    /\ loops = <<>>
    /\ emitted = <<>>
    /\ dest = [s \in Slots |-> 0]
    /\ mailbox \in {mb \in Mailboxes : Len(mb) = 1}
    /\ starts = 0
    /\ ended = <<>>
    /\ ctl = NoCtl
    /\ rec = NoInput
    /\ xfer = NoInput
    /\ san = NoInput
    /\ mail = NoInput
    /\ AuxIdle
    /\ syncInProgress = <<>>
    /\ pausedSyncs = <<>>
    /\ folderRuns = <<>>
    /\ \E service \in ControlServices : folderCtl = [NoFolderCtl EXCEPT !.service = service]

NextControl ==
    \/ folderCtl.service = "imapSync" /\ NextSync
    \/ /\ folderCtl.service = "folderSync"
       /\ \/ \E key \in TaskIds : SyncFolders(key)
          \/ \E key \in TaskIds : FolderSync_pauseSync(key)
          \/ \E key \in TaskIds : FolderSync_resumeSync(key)
          \/ \E k \in 1..MaxFolderRuns, ok \in BOOLEAN, n \in 0..MaxFolders :
                FolderSetupDone(k, ok, n)
          \/ \E k \in 1..MaxFolderRuns, ok \in BOOLEAN : FolderStepDone(k, ok)

(***************************************************************************)
(* EmailProcessorService.checkTlsSupport (email-processor.service.ts        *)
(* 418-474, and the copy of the class in part_007, 338-383), event by      *)
(* event: the answer of dnsResolveMx, the events of the TLS socket on port *)
(* 465, those of the plain socket on port 587, and the timer.              *)
(***************************************************************************)
MxRecord(exchange, priority) == [exchange |-> exchange, priority |-> priority]
MxRecords == {MxRecord(x, pr) : x \in {"mx1", "mx2"}, pr \in {10, 20}}
\* What dnsResolveMx gives: a rejection, or a list of records.
MxAnswer(rejects, records) == [rejects |-> rejects, records |-> records]
MxAnswers ==
    {MxAnswer(TRUE, <<>>)} \cup {MxAnswer(FALSE, l) : l \in SeqsUpTo(MxRecords, MaxMx)}

\* mxRecords.sort((a, b) => a.priority - b.priority)[0].exchange: the sort is
\* stable, so the first record of the lowest priority comes first.
PrimaryMx(mxRecords) ==
    LET best == CHOOSE i \in 1..Len(mxRecords) :
                    \A j \in 1..Len(mxRecords) :
                        \/ mxRecords[i].priority < mxRecords[j].priority
                        \/ mxRecords[i].priority = mxRecords[j].priority /\ i <= j
    IN  mxRecords[best].exchange

TlsResult(tlsSupport, validCertificate) ==
    [tlsSupport |-> tlsSupport, validCertificate |-> validCertificate]
NoTlsResult == TlsResult("none", "none")

TlsInput(version, answer) ==
    [pc |-> "dnsResolveMx", version |-> version, answer |-> answer, host |-> Undef,
     socket |-> "none", authorized |-> Undef, starttlsSocket |-> "none",
     timer |-> "none", result |-> NoTlsResult, by |-> "none"]

\* resolve(value): the first call settles the promise, the later ones do nothing.
TlsResolve(c, value, by) ==
    IF c.pc = "returned" THEN c
    ELSE [c EXCEPT !.pc = "returned", !.result = value, !.by = by]

TlsCommit == UNCHANGED <<poolVars, syncVars, rec, xfer, san, mail, folderVars, imapPoolVars>>

\* await this.dnsResolveMx(domain) ends (420-430, 437-445): without records
\* the call returns at once, otherwise it opens the TLS socket and sets the
\* timer.
TlsMxDone ==
    /\ tlsCall.pc = "dnsResolveMx"
    /\ IF tlsCall.answer.rejects \/ tlsCall.answer.records = <<>>
       THEN tlsCall' = TlsResolve(tlsCall, TlsResult(Undef, Undef), "dnsResolveMx")
       ELSE tlsCall' = [tlsCall EXCEPT !.pc = "probing",
                                       !.host = PrimaryMx(tlsCall.answer.records),
                                       !.socket = "connecting",
                                       !.timer = "set"]
    /\ TlsCommit

\* 'secureConnect' (440-446).
TlsSecureConnect(authorized) ==
    /\ tlsCall.pc # "none"
    /\ tlsCall.socket = "connecting"
    /\ tlsCall' = TlsResolve([tlsCall EXCEPT !.socket = "ended",
                                             !.authorized = authorized],
                             TlsResult("true", authorized), "handshake")
    /\ TlsCommit

\* 'error' of the TLS socket (448-460): the plain socket connects to port 587.
TlsSocketError ==
    /\ tlsCall.pc # "none"
    /\ tlsCall.socket = "connecting"
    /\ tlsCall' = [tlsCall EXCEPT !.socket = "failed", !.starttlsSocket = "connecting"]
    /\ TlsCommit

\* The connect callback of the plain socket (452-456).
TlsStarttlsConnect ==
    /\ tlsCall.pc # "none"
    /\ tlsCall.starttlsSocket = "connecting"
    /\ tlsCall' = TlsResolve([tlsCall EXCEPT !.starttlsSocket = "destroyed"],
                             TlsResult("true", Undef), "fallback")
    /\ TlsCommit

\* 'error' of the plain socket (458-460).
TlsStarttlsError ==
    /\ tlsCall.pc # "none"
    /\ tlsCall.starttlsSocket = "connecting"
    /\ tlsCall' = TlsResolve([tlsCall EXCEPT !.starttlsSocket = "failed"],
                             TlsResult("false", Undef), "fallback")
    /\ TlsCommit

\* The timer fires (463-467).  The service sets it with setTimeout, so that it
\* fires whatever the sockets did; the copy sets it with socket.setTimeout,
\* the idle timer of the TLS socket, which fires while that socket is open.
TlsTimeout ==
    /\ tlsCall.pc # "none"
    /\ tlsCall.timer = "set"
    /\ tlsCall.version = "copy" => tlsCall.socket = "connecting"
    /\ tlsCall' = TlsResolve([tlsCall EXCEPT
                                 !.timer = "fired",
                                 !.socket = IF @ = "connecting" THEN "destroyed" ELSE @],
                             TlsResult(Undef, Undef), "timeout")
    /\ TlsCommit

InitTls ==
    /\ PoolIdle
    /\ SyncIdle
    /\ rec = NoInput
    /\ xfer = NoInput
    /\ san = NoInput
    /\ mail = NoInput
    /\ FolderIdle
    /\ ImapPoolIdle
    /\ \E version \in ProcessVersions, answer \in MxAnswers :
          tlsCall = TlsInput(version, answer)

NextTls ==
    \/ TlsMxDone
    \/ \E authorized \in {"true", "false"} : TlsSecureConnect(authorized)
    \/ TlsSocketError
    \/ TlsStarttlsConnect
    \/ TlsStarttlsError
    \/ TlsTimeout

(***************************************************************************)
(* ImapPoolService (part_006): getConnection, createConnection,            *)
(* releaseConnection, closeConnection and performMaintenance, with the     *)
(* events of the Imap objects and of connectionEvents.                     *)
(***************************************************************************)
PoolConnectionIds == {"c1"}

PooledConnection(imapNo, inUse) == [imap |-> imapNo, inUse |-> inUse]

\* new Imap(...) with the three imap.once(...) of createConnection, after
\* imap.connect().
NewPooled(connectionId) ==
    [id |-> connectionId, state |-> "connecting", endRequested |-> FALSE,
     onReady |-> TRUE, onError |-> TRUE, onEnd |-> TRUE]

\* A createConnection call: it awaits findOne, then it waits for the events
\* `${connectionId}:ready` and `${connectionId}:error` and for its timer.
NewPoolCall(connectionId) ==
    [id |-> connectionId, pc |-> "findOne", imap |-> 0, onReady |-> FALSE,
     onError |-> FALSE]

\* What a call of getConnection returned: the Imap object, whether it had
\* emitted 'error' or 'end', and whether its entry was marked in use when the
\* call looked at it.
PoolReturn(imapNo, via, wasInUse) ==
    [imap |-> imapNo, via |-> via, wasInUse |-> wasInUse,
     dead |-> pooled[imapNo].state \in {"error", "ended"}]

ImapPoolCommit == UNCHANGED <<poolVars, syncVars, rec, xfer, san, mail, folderVars, tlsCall>>

\* releaseConnection(connectionId) (140-146).
ReleasedPool(cp, connectionId) ==
    IF MapHas(cp, connectionId)
    THEN MapSet(cp, connectionId, [MapGet(cp, connectionId) EXCEPT !.inUse = FALSE])
    ELSE cp

\* connectionEvents.removeAllListeners of the ready and error events of an id.
WithoutListeners(calls, connectionId) ==
    [c \in 1..Len(calls) |->
        IF calls[c].id = connectionId
        THEN [calls[c] EXCEPT !.onReady = FALSE, !.onError = FALSE]
        ELSE calls[c]]

\* The test of getConnection: the id has an entry that is not in use.
PoolEntryFree(connectionId) ==
    /\ MapHas(connectionPool, connectionId)
    /\ ~MapGet(connectionPool, connectionId).inUse

\* getConnection(connectionId, userId) (56-67): an entry that is not in use
\* is marked and its Imap object returned; otherwise createConnection is
\* called, which awaits findOne first.
ImapPool_getConnection(connectionId) ==
    /\ IF PoolEntryFree(connectionId)
       THEN /\ connectionPool' =
                  MapSet(connectionPool, connectionId,
                         [MapGet(connectionPool, connectionId) EXCEPT !.inUse = TRUE])
            /\ poolRet' = {PoolReturn(MapGet(connectionPool, connectionId).imap, "pool",
                                      MapGet(connectionPool, connectionId).inUse)}
            /\ UNCHANGED <<pooled, poolCalls>>
       ELSE /\ Len(poolCalls) < MaxPoolCalls
            /\ Len(pooled) + Len(poolCalls) < MaxPooled
            /\ poolCalls' = Append(poolCalls, NewPoolCall(connectionId))
            /\ poolRet' = {}
            /\ UNCHANGED <<connectionPool, pooled>>
    /\ ImapPoolCommit

\* createConnection after await findOne (71-118): a rejected findOne rejects
\* the call; otherwise the Imap object is made, connect() is called, the
\* entry of the id is set (marked in use) and the call waits.
ImapPool_createConnection(c, found) ==
    /\ c \in 1..Len(poolCalls)
    /\ poolCalls[c].pc = "findOne"
    /\ IF found
       THEN /\ pooled' = Append(pooled, NewPooled(poolCalls[c].id))
            /\ connectionPool' = MapSet(connectionPool, poolCalls[c].id,
                                        PooledConnection(Len(pooled) + 1, TRUE))
            /\ poolCalls' = [poolCalls EXCEPT ![c].pc = "waiting",
                                              ![c].imap = Len(pooled) + 1,
                                              ![c].onReady = TRUE,
                                              ![c].onError = TRUE]
       ELSE /\ poolCalls' = DropAt(poolCalls, c)
            /\ UNCHANGED <<connectionPool, pooled>>
    /\ poolRet' = {}
    /\ ImapPoolCommit

\* The Imap object emits 'ready' (83-86): `${id}:ready` resolves every call
\* that listens for the id with the Imap object of that call.
PooledReady(n) ==
    /\ n \in 1..Len(pooled)
    /\ pooled[n].state = "connecting"
    /\ pooled' = [pooled EXCEPT ![n].state = "ready", ![n].onReady = FALSE]
    /\ LET heard == {c \in 1..Len(poolCalls) :
                        /\ pooled[n].onReady
                        /\ poolCalls[c].id = pooled[n].id
                        /\ poolCalls[c].onReady}
       IN  /\ poolCalls' = SelectSeq([c \in 1..Len(poolCalls) |->
                                         IF c \in heard THEN NoInput ELSE poolCalls[c]],
                                     LAMBDA call : call # NoInput)
           /\ poolRet' = {[imap |-> poolCalls[c].imap, via |-> "created",
                           wasInUse |-> FALSE,
                           dead |-> IF poolCalls[c].imap = n THEN FALSE
                                    ELSE pooled[poolCalls[c].imap].state \in {"error", "ended"}] :
                          c \in heard}
    /\ UNCHANGED connectionPool
    /\ ImapPoolCommit

\* The Imap object emits 'error' (88-92): `${id}:error` rejects every call
\* that listens for the id, and the entry of the id is released.
PooledError(n) ==
    /\ n \in 1..Len(pooled)
    /\ pooled[n].state \in {"connecting", "ready"}
    /\ pooled' = [pooled EXCEPT ![n].state = "error", ![n].onError = FALSE]
    /\ IF pooled[n].onError
       THEN /\ poolCalls' = SelectSeq(poolCalls,
                                      LAMBDA call : ~(call.id = pooled[n].id /\ call.onError))
            /\ connectionPool' = ReleasedPool(connectionPool, pooled[n].id)
       ELSE UNCHANGED <<poolCalls, connectionPool>>
    /\ poolRet' = {}
    /\ ImapPoolCommit

\* The Imap object emits 'end' (94-98), of itself or after end(): the entry
\* of the id is released.
PooledEnd(n) ==
    /\ n \in 1..Len(pooled)
    /\ pooled[n].state \in {"ready", "error"} \/ pooled[n].endRequested
    /\ pooled[n].state # "ended"
    /\ pooled' = [pooled EXCEPT ![n].state = "ended", ![n].onEnd = FALSE,
                                ![n].endRequested = FALSE]
    /\ connectionPool' = IF pooled[n].onEnd
                         THEN ReleasedPool(connectionPool, pooled[n].id)
                         ELSE connectionPool
    /\ poolRet' = {}
    /\ UNCHANGED poolCalls
    /\ ImapPoolCommit

\* The 30 s timer of a waiting call (125-129): the ready and error listeners
\* of the id are removed, those of the other calls included, and the call is
\* rejected.
ImapPool_timeout(c) ==
    /\ c \in 1..Len(poolCalls)
    /\ poolCalls[c].pc = "waiting"
    /\ poolCalls' = DropAt(WithoutListeners(poolCalls, poolCalls[c].id), c)
    /\ poolRet' = {}
    /\ UNCHANGED <<connectionPool, pooled>>
    /\ ImapPoolCommit

\* A caller gives the connection back: releaseConnection(connectionId).
ImapPool_releaseConnection(connectionId) ==
    /\ MapHas(connectionPool, connectionId)
    /\ connectionPool' = ReleasedPool(connectionPool, connectionId)
    /\ poolRet' = {}
    /\ UNCHANGED <<pooled, poolCalls>>
    /\ ImapPoolCommit

\* closeConnection(connectionId) (148-161): end() on the Imap object of the
\* entry, the entry deleted, the listeners of the id removed.
ImapPool_closeConnection(connectionId) ==
    /\ pooled' = [pooled EXCEPT ![MapGet(connectionPool, connectionId).imap].endRequested =
                                    pooled[MapGet(connectionPool, connectionId).imap].state # "ended"]
    /\ connectionPool' = MapDelete(connectionPool, connectionId)
    /\ poolCalls' = WithoutListeners(poolCalls, connectionId)

\* performMaintenance (42-54), every 5 minutes: the entries that are not in
\* use and have been idle for more than 10 minutes are closed.
ImapPool_performMaintenance ==
    /\ \E connectionId \in PoolConnectionIds :
          /\ PoolEntryFree(connectionId)
          /\ ImapPool_closeConnection(connectionId)
    /\ poolRet' = {}
    /\ ImapPoolCommit

InitImapPool ==
    /\ PoolIdle
    /\ SyncIdle
    /\ rec = NoInput
    /\ xfer = NoInput
    /\ san = NoInput
    /\ mail = NoInput
    /\ FolderIdle
    /\ tlsCall = NoInput
    /\ ImapPoolIdle

NextImapPool ==
    \/ \E connectionId \in PoolConnectionIds : ImapPool_getConnection(connectionId)
    \/ \E c \in 1..MaxPoolCalls, found \in BOOLEAN : ImapPool_createConnection(c, found)
    \/ \E n \in 1..MaxPooled : PooledReady(n)
    \/ \E n \in 1..MaxPooled : PooledError(n)
    \/ \E n \in 1..MaxPooled : PooledEnd(n)
    \/ \E c \in 1..MaxPoolCalls : ImapPool_timeout(c)
    \/ \E connectionId \in PoolConnectionIds : ImapPool_releaseConnection(connectionId)
    \/ ImapPool_performMaintenance

vars == <<poolVars, syncVars, pureVars>>

SpecPool == InitPool /\ [][NextPool]_vars
SpecRetry == InitRetry /\ [][NextRetry]_vars
SpecEvict == InitEvict /\ [][NextEvict]_vars
SpecReuse == InitReuse /\ [][NextReuse]_vars
SpecShutdown == InitShutdown /\ [][NextShutdown]_vars
\* The interval timer of the sweep (47), the continuation of its await, the
\* backoff timers and the answer of a session that is connecting are fair.
SpecHealth ==
    /\ InitHealth
    /\ [][NextHealth]_vars
    /\ WF_vars(CheckConnectionHealth)
    /\ \A k \in 1..MaxSweeps : WF_vars(HealthResume(k))
    /\ \A r \in 1..HealthRuns : WF_vars(RetryTimer(r))
    /\ \A id \in Ids : WF_vars(SessionAnswers(id))
SpecSync == InitSync /\ [][NextSync]_vars
SpecSyncFair ==
    /\ InitSyncFair
    /\ [][NextSync]_vars
    /\ \A k \in 1..MaxStarts : WF_vars(LoopStep(k))
SpecReconcile == InitReconcile /\ [][NextReconcile]_vars
SpecTransfer == InitTransfer /\ [][NextTransfer]_vars
SpecSanitize == InitSanitize /\ [][NextSanitize]_vars
SpecProcess == InitProcess /\ [][NextProcess]_vars
SpecControl == InitControl /\ [][NextControl]_vars
SpecTls == InitTls /\ [][NextTls]_vars
SpecKeys == InitKeys /\ [][NextKeys]_vars
SpecImapPool == InitImapPool /\ [][NextImapPool]_vars
SpecSweep ==
    /\ InitSweep
    /\ [][NextSweep]_vars
    /\ WF_vars(CleanupInactiveConnections)
    /\ \A k \in 1..MaxCleanups : WF_vars(CleanupResume(k))
    /\ WF_vars(CheckConnectionHealth)
    /\ \A k \in 1..MaxSweeps : WF_vars(HealthResume(k))
    /\ \A r \in 1..SweepRuns : WF_vars(RetryTimer(r))
    /\ \A id \in Ids : WF_vars(SessionAnswers(id))
    /\ \A id \in Ids : WF_vars(LiveSessionEnds(id))

(***************************************************************************)
(* Properties of the connection pool.                                      *)
(***************************************************************************)
AllRuns == Range(runs) \cup settled
MissingField(config) ==
    \/ config.user = Undef
    \/ config.password = Undef
    \/ config.host = Undef
    \/ config.port = Undef
PoolMaps == <<connections, connectionStatus, connectionPriorityQueue>>

\* C3: the connection map never holds more than MAX_CONNECTIONS entries, and
\* a createConnection on a full pool leaves the pool no larger than it was.
C3_PoolWithinCapacity ==
    /\ Len(connections) <= MAX_CONNECTIONS
    /\ (lastCall.outcome = "created" => Len(connections) <= MAX_CONNECTIONS)

\* C4: one connectWithRetry call never calls connect() more often than its
\* maximum (3 from createConnection and getConnection, 5 by default).
C4_AttemptsWithinMax ==
    \A run \in AllRuns : run.connects <= run.maxRetries

\* C5: a connectWithRetry call that rejects does so with the error of its
\* last attempt, and leaves the entry in state 'error' with that error.
C5_ExhaustedMarksError ==
    \A run \in settled :
        run.pc = "rejected" =>
            /\ run.error = lastCall.error
            /\ run.retries = run.maxRetries
            /\ MapHas(connectionStatus, run.connectionId)
            /\ MapGet(connectionStatus, run.connectionId).state = "error"
            /\ MapGet(connectionStatus, run.connectionId).error = lastCall.error
C5_Witness ==
    \E run \in settled : run.pc = "rejected" /\ lastCall.error \in Errs

\* C6: createConnection, and getAvailableConnection when no entry matches,
\* called with a config that lacks user, password, host or port, fails with
\* the invalid-configuration error, constructs no session, starts no
\* connect and leaves the connection map, the status map and the queue alone.
C6_InvalidConfigRejected ==
    [][(/\ lastCall'.op \in {"createConnection", "getAvailableConnection"}
        /\ MissingField(lastCall'.config)
        /\ lastCall'.outcome # "reused")
       => /\ lastCall'.outcome = "InvalidConfig"
          /\ UNCHANGED <<PoolMaps, imap, runs, nextId>>]_poolVars
C6_Witness ==
    /\ lastCall.op = "getAvailableConnection"
    /\ lastCall.outcome = "InvalidConfig"
    /\ Len(connections) > 0

\* C7: getAvailableConnection returns an existing id, creating no session,
\* exactly when an entry has the same user, host and port and is 'connected'
\* or 'connecting'; otherwise (the config being complete) it adds a new entry
\* with a new session.
C7_ReuseExactlyWhenLive ==
    [][lastCall'.op = "getAvailableConnection" =>
        LET config == lastCall'.config
            live == {i \in 1..Len(connectionStatus) :
                        /\ connectionStatus[i].v.user = config.user
                        /\ connectionStatus[i].v.host = config.host
                        /\ connectionStatus[i].v.port = config.port
                        /\ connectionStatus[i].v.state \in {"connected", "connecting"}}
            id == lastCall'.id
        IN  /\ (live # {}) <=> (lastCall'.outcome = "reused")
            /\ lastCall'.outcome = "reused" =>
                   /\ id \in {connectionStatus[i].k : i \in live}
                   /\ UNCHANGED <<connections, imap, runs, nextId>>
            /\ (live = {} /\ ~MissingField(config)) =>
                   /\ lastCall'.outcome = "created"
                   /\ ~InSeq(connections, id) /\ ~imap[id].constructed
                   /\ InSeq(connections', id) /\ imap'[id].constructed
                   /\ MapHas(connectionStatus', id)]_poolVars
C7_Witness ==
    /\ lastCall.op = "getAvailableConnection"
    /\ lastCall.outcome = "reused"
    /\ MapGet(connectionStatus, lastCall.id).state = "connecting"

\* C8: getConnection fails with not-found exactly for an id that is not in
\* the connection map; on a disconnected session it starts connectWithRetry
\* and returns only when that settles, with 'Failed to reconnect' when it
\* rejects; when it returns the handle the entry's lastActivity is the
\* current time.
C8_GetConnection ==
    [][/\ lastCall'.op = "getConnection" =>
            /\ (lastCall'.outcome = "NotFound") <=> ~InSeq(connections, lastCall'.id)
            /\ (InSeq(connections, lastCall'.id)
                /\ imap[lastCall'.id].state = "disconnected") =>
                   /\ lastCall'.outcome = "reconnecting"
                   /\ \E run \in Range(runs') :
                        /\ run.caller = "get" /\ run.connectionId = lastCall'.id
                        /\ run.connects = 1 /\ run.maxRetries = GET_RETRIES
            /\ lastCall'.outcome = "ok" =>
                   (MapHas(connectionStatus', lastCall'.id) =>
                      MapGet(connectionStatus', lastCall'.id).lastActivity = now)
       /\ \A run \in settled' :
            run.caller = "get" =>
               /\ run.pc = "rejected" => run.result = "ReconnectFailed"
               /\ run.pc = "resolved" =>
                    /\ run.result = "ok"
                    /\ MapHas(connectionStatus', run.connectionId) =>
                         MapGet(connectionStatus', run.connectionId).lastActivity = now
      ]_poolVars
C8_Witness ==
    /\ now > 0
    /\ \E run \in settled :
         /\ run.caller = "get" /\ run.pc = "resolved" /\ run.retries > 0
         /\ MapHas(connectionStatus, run.connectionId)

\* C9: when closeConnection(id) completes for a known id, id is in neither
\* the connection map, nor the status map, nor the priority queue; on an
\* unknown id it changes nothing.
C9_CloseRemovesEverywhere ==
    [][lastCall'.op = "closeConnection" =>
        /\ lastCall'.outcome = "closed" =>
              /\ ~InSeq(connections', lastCall'.id)
              /\ ~MapHas(connectionStatus', lastCall'.id)
              /\ ~InSeq(connectionPriorityQueue', lastCall'.id)
        /\ lastCall'.outcome = "noop" => UNCHANGED <<PoolMaps, imap, runs>>]_poolVars

(***************************************************************************)
(* Properties of the synchronisation service.                              *)
(***************************************************************************)
ProcessingEvents ==
    {"sync:folder:start", "sync:folder:progress", "sync:folder:complete", "sync:progress"}
ProgressEvents == {"sync:folder:progress", "sync:progress"}
EmitsFor(taskId, types) ==
    \E j \in 1..Len(emitted') : emitted'[j].taskId = taskId /\ emitted'[j].type \in types
\* A task that has completed, failed or been canceled: no syncProcess call
\* of it is left, or its canceled flag is set.
Terminal(taskId) ==
    /\ syncTasks[taskId].known
    /\ \/ syncTasks[taskId].canceled
       \/ \A k \in 1..Len(loops) : loops[k].taskId # taskId

\* C1: once a task is canceled (and stays so), no step emits a folder-start,
\* folder-progress, folder-complete or overall-progress event for it and no
\* step appends a message to the destination, also when the cancel arrives
\* while the loop waits in the pause poll.
C1_NothingAfterCancel ==
    [][\A t \in TaskIds :
         syncTasks[t].known /\ syncTasks[t].canceled /\ syncTasks'[t].canceled
         => ~EmitsFor(t, ProcessingEvents) /\ dest' = dest]_vars

\* C2: while a task is paused no step emits a progress event for it, and a
\* loop that leaves the pause poll goes on with the folder and the message
\* index it waited at.
C2_PauseHaltsProgress ==
    [][/\ \A t \in TaskIds :
            syncTasks[t].known /\ syncTasks[t].paused /\ ~syncTasks[t].canceled
            => ~EmitsFor(t, ProgressEvents)
       /\ \A k \in 1..Len(loops) :
            loops[k].pc \in {"folderPoll", "msgPoll"} /\ Len(loops') = Len(loops)
            => loops'[k].f = loops[k].f /\ loops'[k].i = loops[k].i]_vars

\* C10: pauseSync, resumeSync and cancelSync on a task id that is unknown, or
\* whose task has completed, failed or been canceled, change no task and
\* emit no event.
C10_ControlsIgnoreTerminalTasks ==
    [][ctl'.op \in {"pause", "resume", "cancel"}
       /\ (~syncTasks[ctl'.taskId].known \/ Terminal(ctl'.taskId))
       => syncTasks' = syncTasks /\ emitted' = <<>>]_vars

LogTypes(lp) == [j \in 1..Len(lp.log) |-> lp.log[j].type]
CountOf(types, type) == Cardinality({j \in 1..Len(types) : types[j] = type})
LoopOf(taskId, ls) == \E k \in 1..Len(ls) : ls[k].taskId = taskId
\* The step is a step of the syncProcess call k.
StepOfLoop(k) ==
    \/ loops' = DropAt(loops, k)
    \/ Len(loops') = Len(loops) /\ loops'[k] # loops[k]

\* C11: resumeSync on a paused task clears paused, and when no syncProcess
\* call of the task is left at that time, the step launches a new one.
C11_ResumeRelaunches ==
    [][ctl'.op = "resume" /\ syncTasks[ctl'.taskId].known /\ syncTasks[ctl'.taskId].paused
       => /\ ~syncTasks'[ctl'.taskId].paused
          /\ ~LoopOf(ctl'.taskId, loops) => LoopOf(ctl'.taskId, loops')]_vars

\* C12: a syncProcess call ends without event only when its task is
\* canceled; it ends with 'sync:error' only from the set-up (its log holds
\* nothing but 'sync:error'); otherwise it ends with 'sync:completed' as its
\* last event, without 'sync:error', and every folder has given either
\* 'sync:folder:error' or 'sync:progress'.
C12_CompletesDespiteFolderErrors ==
    \A j \in 1..Len(ended) :
        LET lp == ended[j]
            types == LogTypes(lp)
        IN  /\ lp.pc = "stopped" => syncTasks[lp.taskId].canceled
            /\ lp.pc = "failed" =>
                   Len(types) > 0 /\ \A i \in 1..Len(types) : types[i] = "sync:error"
            /\ lp.pc = "completed" =>
                   /\ Len(types) > 0 /\ types[Len(types)] = "sync:completed"
                   /\ CountOf(types, "sync:error") = 0
                   /\ CountOf(types, "sync:completed") = 1
                   /\ CountOf(types, "sync:folder:error") + CountOf(types, "sync:progress")
                          = Len(mailbox)

C12_Witness ==
    \E j \in 1..Len(ended) :
        /\ ended[j].pc = "completed"
        /\ ~syncTasks[ended[j].taskId].canceled
        /\ Len(mailbox) = 2
        /\ CountOf(LogTypes(ended[j]), "sync:folder:error") = 2

\* C13: a syncProcess call of a task that was started once and never
\* canceled, on one folder of n messages, without failure: its log holds
\* exactly n 'sync:folder:progress' with strictly increasing percentages that
\* end at 100, then one 'sync:folder:complete', then one 'sync:completed'.
C13_ProgressScenario ==
    \A j \in 1..Len(ended) :
        LET lp == ended[j]
            n == mailbox[1]
            shown == SelectSeq(lp.log, LAMBDA e : e.type \in
                        {"sync:folder:progress", "sync:folder:complete", "sync:completed"})
        IN  /\ lp.pc = "completed" /\ Len(mailbox) = 1 /\ starts = 1
            /\ ~syncTasks[lp.taskId].canceled
            /\ CountOf(LogTypes(lp), "sync:folder:error") = 0
            => /\ Len(shown) = n + 2
               /\ \A i \in 1..n : shown[i].type = "sync:folder:progress"
               /\ \A i \in 1..n, h \in 1..n : i < h => shown[i].progress < shown[h].progress
               /\ n > 0 => shown[n].progress = 100
               /\ shown[n + 1].type = "sync:folder:complete"
               /\ shown[n + 2].type = "sync:completed"

C13_Witness ==
    \E j \in 1..Len(ended) :
        /\ ended[j].pc = "completed" /\ mailbox = <<3>> /\ starts = 1
        /\ ~syncTasks[ended[j].taskId].canceled
        /\ CountOf(LogTypes(ended[j]), "sync:folder:progress") = 3

\* C14: no message of the source is stored more than once in its
\* destination folder, also when the same sync runs twice.
C14_NoDuplicateAppend == \A slot \in Slots : dest[slot] <= 1

\* C18: when the transfer of one message is rejected, the folder is not
\* reported as failed and the call goes on with the next message of the
\* same folder (or completes the folder after the last message).
C18_MessageFailureNotFatal ==
    [][\A k \in 1..Len(loops) :
         Waiting(k, "append") /\ StepOfLoop(k) /\ dest' = dest
         => /\ ~EmitsFor(loops[k].taskId, {"sync:folder:error"})
            /\ \/ EmitsFor(loops[k].taskId, {"sync:folder:complete"})
               \/ /\ Len(loops') = Len(loops)
                  /\ loops'[k].f = loops[k].f
                  /\ loops'[k].i = loops[k].i + 1]_vars

(***************************************************************************)
(* Properties of createMissingFolders.                                     *)
(***************************************************************************)
\* The source paths that are not in the destination, as the service sees them.
AbsentPaths ==
    Range(SourcePaths(rec.service, rec.source, rec.delim))
        \ DestPaths(rec.service, rec.dest, rec.delim)
\* The pairs <<path of a source folder, path of one of its children>>.
ParentPairs ==
    LET folders == ParseBoxes(rec.source, <<>>,
                              IF rec.service = "folderSync" THEN "/" ELSE rec.delim)
    IN  UNION {{<<folders[i].path, folders[i].children[j].path>> :
                   j \in 1..Len(folders[i].children)} : i \in 1..Len(folders)}

\* C15: createMissingFolders calls addBox only for source paths that are
\* absent from the destination, and for all of them when it resolves; run again on the destination a fully successful first
\* run has left, it calls addBox for no path.
C15_ReconcileIdempotent ==
    rec.pc # "none" =>
        /\ Range(rec.calls) \subseteq AbsentPaths
        /\ rec.pc = "resolved" => Range(rec.calls) = AbsentPaths
        /\ rec.round = 2 /\ rec.pc # "input" => rec.pc = "resolved" /\ rec.calls = <<>>

C15_Witness ==
    /\ rec.pc = "resolved" /\ rec.round = 2
    /\ Len(rec.first) >= 2

\* C16: the addBox call for a missing folder comes after the addBox call for
\* its parent when the parent is missing too, for every hierarchy and both
\* delimiters; after a run without failure the destination holds every
\* source path.
C16_ParentsBeforeChildren ==
    rec.pc # "none" =>
        /\ \A i \in 1..Len(rec.calls) : \A pair \in ParentPairs :
              pair[2] = rec.calls[i] /\ pair[1] \in AbsentPaths
              => \E j \in 1..(i - 1) : rec.calls[j] = pair[1]
        /\ rec.pc = "resolved" /\ rec.failed = {} =>
              Range(SourcePaths(rec.service, rec.source, rec.delim)) \subseteq
              DestPaths(rec.service, AddBoxes(rec.dest, rec.calls, rec.delim), rec.delim)

C16_Witness ==
    /\ rec.pc = "resolved" /\ rec.failed = {} /\ rec.round = 1
    /\ \E pair \in ParentPairs : pair[1] \in Range(rec.calls) /\ pair[2] \in Range(rec.calls)
    /\ Len(rec.calls) >= 3

\* C17: a failed addBox does not make createMissingFolders fail, and addBox
\* is still called for every other missing folder.
C17_CreationFailureSkipped ==
    /\ rec.pc # "rejected"
    /\ rec.pc = "resolved" => Range(rec.calls) = AbsentPaths

(***************************************************************************)
(* Properties of the transfer of a message and of sanitizeFolderName.      *)
(***************************************************************************)
\* C19: every append carries exactly the flags of the source message that
\* are among \Seen, \Answered, \Flagged, \Deleted and \Draft, never \Recent,
\* and the date of the source message (its Date header or, as the server
\* keeps it, its internal date).
C19_FlagsAndDatePreserved ==
    xfer.pc = "appended" =>
        /\ xfer.append.flags = xfer.attrs.flags \cap SystemFlags
        /\ "\\Recent" \notin xfer.append.flags
        /\ xfer.headerDate # Undef => xfer.append.date \in {xfer.headerDate, xfer.attrs.date}

\* The substitution the claim lists.
ListedImage(c) ==
    CASE c \in {"/", "\\"} -> "-"
      [] c \in {"*", "?", "|"} -> "_"
      [] c = "\"" -> "'"
      [] c = "<" -> "("
      [] c = ">" -> ")"
      [] OTHER -> c

\* C20: sanitizeFolderName replaces every character by its listed image and
\* keeps the length ("A/B*C" gives "A-B_C"), the chain of replace calls and
\* the single regular expression give the same result, and applying it to
\* its result changes nothing.
C20_SanitizeIdempotent ==
    /\ san.pc \in {"once", "twice"} =>
          /\ san.chained = [i \in 1..Len(san.name) |-> ListedImage(san.name[i])]
          /\ san.regex = san.chained
          /\ san.name = ExampleName => san.chained = <<"A", "-", "B", "_", "C">>
    /\ san.pc = "twice" => san.chainedTwice = san.chained /\ san.regexTwice = san.regex

C20_Witness ==
    /\ san.pc = "twice"
    /\ san.name = <<"|", "/">>
    /\ san.chainedTwice = <<"_", "-">>

(***************************************************************************)
(* Properties of processEmail.                                             *)
(***************************************************************************)
\* The Received header is there and the text after its ';' is no date.
UnparsableReceived(message) ==
    /\ message.headers.defined
    /\ ReceivedDatePart(HeaderValue(message.headers, "received")) # <<>>
    /\ DateTime(ReceivedDatePart(HeaderValue(message.headers, "received"))) = NaN

\* The returned record has the value every step of the call computed.
KeepsComputedFields(m) ==
    /\ m.result.senderDomain = m.senderDomain
    /\ Field(m.result, "esp") = m.esp
    /\ Field(m.result, "openRelay") = m.openRelay
    /\ Field(m.result, "tlsSupport") = m.tlsSupport
    /\ Field(m.result, "validCertificate") = m.validCertificate

\* C21: processEmail never throws, whatever the message lacks; when the
\* Received header is present and its date part cannot be parsed the returned
\* timeDelta is undefined, and senderDomain, esp, openRelay, tlsSupport and
\* validCertificate are the values the steps of the call computed.
C21_UnparsableReceivedGivesUndefined ==
    /\ mail.pc # "rejected"
    /\ (mail.pc = "returned" /\ UnparsableReceived(mail.message))
       => /\ TimeDeltaOf(mail.result) = Undefined
          /\ KeepsComputedFields(mail)

\* C22: when a step of processEmail fails the call still returns, the result
\* has the messageId of the message and the sender domain, and the fields the
\* other steps computed are in it.
C22_FailedStepKeepsFields ==
    mail.failed # "none"
    => /\ mail.pc = "returned"
       /\ Field(mail.result, "messageId") = mail.message.messageId
       /\ KeepsComputedFields(mail)

(***************************************************************************)
(* Properties of the status and of pause and resume.                       *)
(***************************************************************************)
\* The tasks that have a syncProcess call that has not ended.
RunningTasks == {t \in TaskIds : syncTasks[t].known /\ LoopOf(t, loops)}

\* C23: a task whose syncProcess calls have all ended (completed, failed or
\* stopped on cancel) is counted neither in activeSyncs nor in pausedSyncs of
\* getSyncStatus, also after a later pauseSync: the two counts together do
\* not exceed the number of tasks that still have a running call.
C23_StatusLeavesOutEndedTasks ==
    getSyncStatus.activeSyncs + getSyncStatus.pausedSyncs <= Cardinality(RunningTasks)

\* The status of ImapSyncService lists the task with paused = true.
PausedReported(status, taskId) ==
    \E r \in status.tasks : r.taskId = taskId /\ r.paused
\* A task getSyncStatus counts as active and that has a running call.
ActiveTask(taskId) ==
    /\ taskId \in RunningTasks
    /\ ~syncTasks[taskId].paused
    /\ ~syncTasks[taskId].canceled

\* C24, FolderSyncService: after pauseSync on a key that was in progress and
\* not paused the status reports paused = true; after a resumeSync that
\* follows such a pauseSync it reports paused = false, the flag the key had
\* before the pause.
C24_FolderPauseResume ==
    /\ folderCtl.op = "pause" /\ folderCtl.active
       => FolderSync_getSyncStatus(folderCtl.key).paused
    /\ folderCtl.op = "resume" /\ folderCtl.prev = "pause" /\ folderCtl.prevActive
       => ~FolderSync_getSyncStatus(folderCtl.key).paused

\* C24, ImapSyncService: a pauseSync step on an active task makes the status
\* list it as paused, and a resumeSync step that follows a pauseSync step of
\* the task makes the status list it as not paused.
C24_TaskPauseResume ==
    /\ ctl'.op = "pause" /\ ActiveTask(ctl'.taskId) => PausedReported(getSyncStatus', ctl'.taskId)
    /\ ctl.op = "pause" /\ ctl'.op = "resume" /\ ctl'.taskId = ctl.taskId
       => ~PausedReported(getSyncStatus', ctl'.taskId)

CloseStarted(im, id) == im[id].closeListener

\* C25, the start: a closeAllConnections step has called closeConnection for
\* every entry of the pool, and where no end() threw every session has been
\* asked to end.
C25_EveryCloseStarted ==
    lastCall'.op = "closeAllConnections"
    => /\ \A id \in Range(connections) : CloseStarted(imap', id)
       /\ lastCall'.outcome = "closing"
          => \A id \in Range(connections) : imap'[id].endRequested

\* C25, the completion: the 'end' of a session that was asked to end can be
\* delivered whatever the other entries do.
C25_CloseCanComplete ==
    \A id \in Range(connections) :
        CloseStarted(imap, id) /\ imap[id].endRequested => ENABLED SessionEnd(id)

\* C25, the completion: the 'end' of an entry whose close was started removes
\* the entry from both maps and leaves the other entries as they are.
C25_CloseCompletes ==
    lastCall'.op = "closeConnection" /\ lastCall'.outcome = "closed"
    => /\ ~InSeq(connections', lastCall'.id)
       /\ ~MapHas(connectionStatus', lastCall'.id)
       /\ connections' = Remove(connections, lastCall'.id)

\* C25: closeAllConnections starts the close of every pooled entry, and an
\* entry whose close fails or never finishes does not keep the close of
\* another entry from being started and completed.
C25_ShutdownClosesAll ==
    /\ [][C25_EveryCloseStarted]_vars
    /\ []C25_CloseCanComplete
    /\ [][C25_CloseCompletes]_vars

\* The close of one entry has completed while another entry, whose end()
\* threw at shutdown, is still in the pool.
C25_Witness ==
    /\ lastCall.op = "closeConnection"
    /\ lastCall.outcome = "closed"
    /\ \E id \in Range(connections) :
          CloseStarted(imap, id) /\ ~imap[id].endRequested

\* C26, the status: an entry closeOldestConnection has selected is reported
\* in state 'connected' neither by getConnectionStatus nor by
\* getAllConnectionStatuses.
C26_EvictedNotConnected ==
    \A id \in Range(connections) :
        CloseStarted(imap, id)
        => /\ getConnectionStatus(id).state # "connected"
           /\ \A status \in getAllConnectionStatuses :
                  status.id = id => status.state # "connected"

\* C26, the reuse: getAvailableConnection does not return the id of an entry
\* closeOldestConnection has selected.
C26_EvictedNotReturned ==
    lastCall'.op = "getAvailableConnection" /\ lastCall'.outcome = "reused"
    => ~CloseStarted(imap, lastCall'.id)

\* C26: from the step in which closeOldestConnection selects an entry, the
\* entry is not reported as connected and its id is not returned by
\* getAvailableConnection, whenever its session emits 'end'.
C26_EvictedNotUsable == []C26_EvictedNotConnected /\ [][C26_EvictedNotReturned]_vars

(***************************************************************************)
(* Termination of a canceled task.                                         *)
(***************************************************************************)
\* C27: once a task is canceled, its syncProcess call ends after finitely
\* many steps, also when the task is paused and never resumed, provided the
\* poll timer fires and the IMAP operation in flight calls back.
C27_CanceledLoopTerminates ==
    \A t \in TaskIds :
        (syncTasks[t].known /\ syncTasks[t].canceled /\ LoopOf(t, loops))
        ~> ~LoopOf(t, loops)

\* The entries of the pool closeOldestConnection can select by their age:
\* those whose lastActivity is before Date.now().
Qualifying ==
    {id \in Range(connections) :
        /\ MapHas(connectionStatus, id)
        /\ MapGet(connectionStatus, id).lastActivity < now}
\* The entries with the smallest lastActivity among them.
Oldest ==
    {id \in Qualifying :
        \A other \in Qualifying :
            MapGet(connectionStatus, id).lastActivity
                <= MapGet(connectionStatus, other).lastActivity}
Closing(im, id) == CloseStarted(im, id) /\ im[id].endRequested

\* C28: a createConnection on a full pool is not rejected; the close of an
\* entry with the smallest lastActivity has been started by it, or, when no
\* entry has a lastActivity before now, the close of some entry.
C28_EvictsOldest ==
    [][lastCall'.op = "createConnection" /\ Len(connections) >= MAX_CONNECTIONS
       => /\ lastCall'.outcome = "created"
          /\ IF Qualifying # {}
             THEN \E id \in Oldest : Closing(imap', id)
             ELSE \E id \in Range(connections) : Closing(imap', id)]_vars

(***************************************************************************)
(* The delays of connectWithRetry.                                         *)
(***************************************************************************)
\* The delays the claim lists for the retries 1 to 5.
ListedDelays == <<2000, 3000, 4500, 6750, 10125>>
\* The timer a connectWithRetry call that waits for its next attempt has set.
TimerDelay(run) == backoffDelay(run.retries)

\* C29, in a state: a call that waits for retry number k has made k connect
\* attempts since it began (so a new call begins again with k = 1), k is at
\* most 5, and its timer is exactly RECONNECT_DELAY * 1.5^(k-1), the listed
\* value.
C29_DelayOfRetry ==
    \A r \in 1..Len(runs) :
        runs[r].pc = "backoff"
        => /\ runs[r].retries \in 1..MAX_RECONNECT_ATTEMPTS
           /\ runs[r].retries = runs[r].connects
           /\ (RECONNECT_DELAY * Pow(3, runs[r].retries - 1)) % Pow(2, runs[r].retries - 1) = 0
           /\ TimerDelay(runs[r]) = ListedDelays[runs[r].retries]

\* C29, in a step: the delay a call sets is not smaller than the one it set
\* before.
C29_DelaysGrow ==
    \A r \in 1..Len(runs) :
        /\ r <= Len(runs')
        /\ runs'[r].connectionId = runs[r].connectionId
        /\ runs'[r].pc = "backoff"
        /\ runs'[r].retries = runs[r].retries + 1
        /\ runs[r].retries >= 1
        => TimerDelay(runs'[r]) >= backoffDelay(runs[r].retries)

\* C29: the delay before retry k of connectWithRetry is RECONNECT_DELAY *
\* 1.5^(k-1), that is 2000, 3000, 4500, 6750, 10125 ms for k = 1..5; within
\* one call the delays do not decrease and every new call starts at 2000.
C29_BackoffDelays == []C29_DelayOfRetry /\ [][C29_DelaysGrow]_vars

\* A call waits for its fifth retry, with a timer of 10125 ms.
C29_Witness ==
    \E r \in 1..Len(runs) :
        /\ runs[r].pc = "backoff"
        /\ runs[r].retries = MAX_RECONNECT_ATTEMPTS
        /\ TimerDelay(runs[r]) = 10125

\* The entries a connectWithRetry call of the sweep works on.
HealthRunIds ==
    {runs[r].connectionId : r \in {i \in 1..Len(runs) : runs[i].caller = "health"}}

\* A connectWithRetry call works on the entry.
Reconnecting(id) == \E r \in 1..Len(runs) : runs[r].connectionId = id

\* The session of a pooled entry is down and no call is connecting it.
Dropped(id) ==
    /\ InSeq(connections, id)
    /\ MapHas(connectionStatus, id)
    /\ imap[id].state = "disconnected"
    /\ ~imap[id].pending
    /\ ~Reconnecting(id)

\* C30, the entries a sweep acts on: a reconnect it starts is for an entry that
\* was not in state 'error' or 'connecting' and whose session was
\* disconnected.
C30_SweepSkips ==
    \A id \in HealthRunIds' \ HealthRunIds :
        /\ MapHas(connectionStatus, id)
        /\ MapGet(connectionStatus, id).state \notin {"error", "connecting"}
        /\ imap[id].state = "disconnected"

\* C30, a failed reconnect: it is logged, no call receives it, and the sweep
\* that awaited it can go on with the remaining entries.
C30_FailureIsLogged ==
    \A run \in settled :
        run.caller = "health" /\ run.pc = "rejected"
        => /\ run.result = "logged"
           /\ lastCall.outcome \notin {"ReconnectFailed", "ConnectFailed"}
           /\ \E k \in 1..Len(health) :
                 /\ health[k].awaits = run.connectionId
                 /\ ENABLED HealthResume(k)

\* C30, the consequence: an entry whose session has dropped and whose state is
\* not 'error' gets a reconnect attempt (or leaves the pool, or is marked
\* 'error').
C30_DroppedIsReconnected ==
    \A id \in Ids :
        (Dropped(id) /\ MapGet(connectionStatus, id).state # "error")
        ~> \/ Reconnecting(id)
           \/ ~InSeq(connections, id)
           \/ MapHas(connectionStatus, id) /\ MapGet(connectionStatus, id).state = "error"

\* C30: each health-check sweep skips the entries in state 'error' or
\* 'connecting' and starts a reconnect for every other entry whose session is
\* disconnected; a failed reconnect is logged and does not stop the sweep;
\* hence every entry whose session has dropped and whose state is not 'error'
\* is eventually given a reconnect attempt.
C30_SweepReconnectsDropped ==
    /\ [][C30_SweepSkips]_vars
    /\ []C30_FailureIsLogged
    /\ C30_DroppedIsReconnected

(***************************************************************************)
(* Properties of checkTlsSupport.                                          *)
(***************************************************************************)
\* C31: checkTlsSupport returns (true, the handshake's authorization) when the
\* handshake on port 465 succeeds, (true, undefined) when it fails and the
\* connect to port 587 succeeds, and (undefined, undefined) when neither
\* succeeds or the MX resolution gives no record; the result is that of the
\* first of handshake, fallback and timeout to finish.
C31_TlsResult ==
    tlsCall.pc = "returned"
    => /\ tlsCall.by = "handshake"
          => tlsCall.result = TlsResult("true", tlsCall.authorized)
       /\ (tlsCall.by = "fallback" /\ tlsCall.starttlsSocket = "destroyed")
          => tlsCall.result = TlsResult("true", Undef)
       /\ \/ tlsCall.by \in {"dnsResolveMx", "timeout"}
          \/ tlsCall.by = "fallback" /\ tlsCall.starttlsSocket = "failed"
          => tlsCall.result = TlsResult(Undef, Undef)

(***************************************************************************)
(* Properties of the pool (continued).                                     *)
(***************************************************************************)
\* The session of a pooled entry is ready and its status says 'connecting'.
LiveButConnecting(id) ==
    /\ InSeq(connections, id)
    /\ imap[id].state = "connected"
    /\ MapHas(connectionStatus, id)
    /\ MapGet(connectionStatus, id).state = "connecting"

\* C32, when a call resolves: the status of its entry is 'connected'.
C32_ResolvedIsConnected ==
    \A run \in settled :
        run.pc = "resolved" /\ InSeq(connections, run.connectionId)
        => /\ MapHas(connectionStatus, run.connectionId)
           /\ MapGet(connectionStatus, run.connectionId).state = "connected"

\* C32, in the long run: an entry with a ready session leaves 'connecting'.
C32_LiveLeavesConnecting ==
    \A id \in Ids : LiveButConnecting(id) ~> ~LiveButConnecting(id)

\* C32: whenever connectWithRetry resolves for an entry, on the first
\* connection and on every later reconnection, the status of the entry becomes
\* 'connected'; no entry with a live, ready session stays 'connecting' forever.
C32_ReconnectMarksConnected == []C32_ResolvedIsConnected /\ C32_LiveLeavesConnecting

(***************************************************************************)
(* Properties of ImapSyncService (continued).                              *)
(***************************************************************************)
\* The syncProcess calls of a task that have not ended.
LoopsOf(taskId, ls) == {k \in 1..Len(ls) : ls[k].taskId = taskId}

\* C33: at most one syncProcess call is active for a task id at any time,
\* whatever the sequence of startSync, pauseSync, resumeSync and cancelSync
\* calls, a startSync for a pair whose earlier run has not ended included.
C33_OneLoopPerTask ==
    \A t \in TaskIds : Cardinality(LoopsOf(t, loops)) <= 1

\* C34: once the canceled flag of a task is true, no step sets it back to
\* false while a syncProcess call that was active at the cancel is still
\* active.
C34_CancelIsPermanent ==
    [][\A t \in TaskIds :
          /\ syncTasks[t].canceled
          /\ LoopsOf(t, loops) # {}
          /\ Len(loops') >= Len(loops)
          => syncTasks'[t].canceled]_vars

\* The 'sync:completed' and 'sync:error' events a call has emitted.
TerminalEvents(lp) ==
    CountOf(LogTypes(lp), "sync:completed") + CountOf(LogTypes(lp), "sync:error")

\* C35: a run emits at most one terminal event: one 'sync:completed' or one
\* 'sync:error' when it ends uncanceled, never both nor one of them twice, and
\* no 'sync:completed' when it returns because it saw the cancel.
C35_OneTerminalEvent ==
    \A j \in 1..Len(ended) :
        /\ TerminalEvents(ended[j]) <= 1
        /\ ended[j].pc \in {"completed", "failed"} => TerminalEvents(ended[j]) = 1
        /\ ended[j].pc = "stopped" => CountOf(LogTypes(ended[j]), "sync:completed") = 0

(***************************************************************************)
(* Properties of the admission queue and of the pool keys.                 *)
(***************************************************************************)
\* C36, the tail: the entry a call has just reused, or whose connectWithRetry
\* call has just resolved, is the last id of the queue.
C36_LatestAtTail ==
    /\ lastCall.outcome = "reused"
       => /\ connectionPriorityQueue # <<>>
          /\ connectionPriorityQueue[Len(connectionPriorityQueue)] = lastCall.id
    /\ \A run \in settled :
          run.pc = "resolved"
          => /\ connectionPriorityQueue # <<>>
             /\ connectionPriorityQueue[Len(connectionPriorityQueue)] = run.connectionId

\* C36: in every reachable state the admission queue holds no id twice, every
\* id in it is a key of the connection map, and the id of the entry acquired
\* or connected last is at its tail.
C36_QueueWellFormed ==
    /\ \A i, j \in 1..Len(connectionPriorityQueue) :
          connectionPriorityQueue[i] = connectionPriorityQueue[j] => i = j
    /\ \A i \in 1..Len(connectionPriorityQueue) :
          InSeq(connections, connectionPriorityQueue[i])
    /\ C36_LatestAtTail

\* Two entries of the pool have the same key.
SameKey(i, j) ==
    /\ imap[i].user = imap[j].user
    /\ imap[i].host = imap[j].host
    /\ imap[i].port = imap[j].port

\* C37: at any time the pool holds at most one entry with a live session for
\* a (user, host, port): no sequence of getAvailableConnection, getConnection,
\* session drops and health-check reconnects leaves two entries of one key
\* both connected.
C37_OneLiveEntryPerKey ==
    \A i, j \in Ids :
        /\ i # j
        /\ InSeq(connections, i) /\ InSeq(connections, j)
        /\ imap[i].state = "connected" /\ imap[j].state = "connected"
        => ~SameKey(i, j)

\* The syncFolders runs of a key that have not ended.
FolderRunsOf(key) == {k \in 1..Len(folderRuns) : folderRuns[k].key = key}

\* C38: at most one syncFolders run is active per source-destination key for
\* any interleaving of syncFolders, pauseSync and resumeSync, and the
\* in-progress flag of a key is false whenever no run of the key is active,
\* that is, again after every run ends (normally, by pause or by error).
C38_OneFolderRunPerKey ==
    \A key \in TaskIds :
        /\ Cardinality(FolderRunsOf(key)) <= 1
        /\ FolderRunsOf(key) = {} => ~FolderSync_getSyncStatus(key).inProgress

\* The run that was active when pauseSync was called has ended, and the flag
\* of its key is set and false.
C38_Witness ==
    /\ folderCtl.op = "pause"
    /\ folderCtl.active
    /\ FolderRunsOf(folderCtl.key) = {}
    /\ MapHas(syncInProgress, folderCtl.key)
    /\ ~MapGet(syncInProgress, folderCtl.key)

\* An idle sweep waits for closeConnection(id) to resolve.
CloseAwaited(id) ==
    /\ InSeq(connections, id)
    /\ \E k \in 1..Len(cleanup) : cleanup[k].awaits = id

\* An idle sweep that waits for a close has the timed-out entry id ahead.
SweepHasAhead(id) ==
    /\ InSeq(connections, id)
    /\ \E k \in 1..Len(cleanup) :
          InSeq(cleanup[k].todo, id) /\ TimedOut(cleanup[k].at, id)

\* C39: the closeConnection(id) an idle sweep calls for a known id eventually
\* resolves and removes the entry whatever the state of its session, so every
\* timed-out entry the sweep still has ahead of it is closed in the end.
C39_CloseResolves ==
    /\ \A id \in Ids : CloseAwaited(id) ~> ~InSeq(connections, id)
    /\ \A id \in Ids : SweepHasAhead(id) ~> ~InSeq(connections, id)

\* An Imap object that createConnection made, that is connecting or ready and
\* was not asked to end, and that is not the Imap object of the entry of its id.
Unreachable(n) ==
    /\ pooled[n].state \in {"connecting", "ready"}
    /\ ~pooled[n].endRequested
    /\ ~(/\ MapHas(connectionPool, pooled[n].id)
         /\ MapGet(connectionPool, pooled[n].id).imap = n)

\* C40: ImapPoolService.getConnection never returns a session that has
\* already emitted 'error' or 'end', never hands out the session of an entry
\* that is marked in use, and every session it creates stays reachable through
\* the pool map until it is ended.
C40_PoolHandsOutLiveSessions ==
    /\ \A r \in poolRet : ~r.dead /\ ~r.wasInUse
    /\ \A n \in 1..Len(pooled) : ~Unreachable(n)

=============================================================================
